---- MODULE Spec2Model ----
(***************************************************************************)
(* A state-machine model of ThinkFlock, a browser application in which a   *)
(* user logs in against a client-side credential store, generates AI       *)
(* personas for a topic and talks to them in a text chat or a live call.   *)
(*                                                                         *)
(* The module holds these specifications over one set of variables:        *)
(*   SpecAuth   the credential store (authService) and the AuthContext;    *)
(*   SpecHash   hashPassword on its own;                                   *)
(*   Spec       the dashboard and the chat page under App;                 *)
(*   SpecCall   the live call page, its connection and its transcript;     *)
(*   SpecAudio  the audio of a live call.                                  *)
(* Strings whose characters matter (passwords, chat text, transcriptions)  *)
(* are sequences: of character codes for passwords, of one-character       *)
(* strings for text.                                                       *)
(***************************************************************************)
EXTENDS Integers, Sequences, FiniteSets, Bags

\* authService and AuthContext.
VARIABLES
  storage,        \* sessionStorage's item under 'brainstorm_app_users'
  users,          \* authService's in-memory list
  btoaAvailable,  \* whether the environment has btoa
  now,            \* Date.now()
  pending,        \* the authService calls whose timer has not fired, oldest first
  user,           \* AuthProvider's user state
  loading,        \* AuthProvider's loading state
  error,          \* AuthProvider's error state
  lastResult,     \* how the last authService call settled
  signedUp,       \* the signUp calls that resolved: {id, email, password}
  calls           \* the number of authService calls made so far

\* One password stored by signUp and one tried by login.
VARIABLES
  pwGiven,        \* the password given to signUp
  pwTried,        \* the password given to login
  storedHash,     \* the hashedPassword signUp stored
  accepted,       \* whether login accepted pwTried
  hashPc          \* "start", "stored" or "compared"

\* The live call page (GroupCallPage) under App.
VARIABLES
  apiKey,             \* whether process.env.API_KEY is set
  activeCall,         \* whether App's activeCallConfig is set: the call page is shown
  mounts,             \* how many times the call page was mounted; the last is the one shown
  callInst,           \* per mount: isMounted and what its refs hold
  pendingCallSummary, \* App's pendingCallSummary
  transcript,         \* the transcript state, as last rendered
  transcriptQueue,    \* the setTranscript updaters React has not run yet
  connectionStatus,   \* the connectionStatus state
  isMuted,            \* the isMuted state
  isModelSpeaking,    \* the isModelSpeaking state
  inputBuf,           \* currentInputTranscriptionRef.current
  outputBuf,          \* currentOutputTranscriptionRef.current
  nextStartTime,      \* nextStartTimeRef.current
  currentTime,        \* outputAudioContext.currentTime
  sources,            \* the buffer sources created, in order: start, duration, stopped, ended
  audioSources,       \* audioSourcesRef.current, as indexes into sources
  decodeQueue,        \* the onmessage handlers suspended at the decode await, oldest first
  expected,           \* the entries the completed turns should have added
  sentWhileMuted,     \* whether audio was sent while isMuted was true
  received            \* what the server sent so far: fragments, turns, chunks, ...

\* The dashboard (DashboardPage) and the chat page (GroupChatPage) under App.
VARIABLES
  sessionConfig,      \* App's sessionConfig: null, or the session the chat page shows
  sessionHistory,     \* App's sessionHistory
  dashMounts,         \* how many times the dashboard was mounted
  topic,              \* the dashboard's topic state
  loadingPersonas,    \* the dashboard's loadingPersonas state
  generatedPersonas,  \* the dashboard's generatedPersonas state
  generatedFor,       \* the topic field's text at the dashboard's latest submission
  checked,            \* the checkboxes that are checked, as indexes into generatedPersonas
  selectedPersonas,   \* the dashboard's selectedPersonas state
  dashError,          \* the dashboard's error state
  chatMounts,         \* how many times the chat page was mounted; the last is the one shown
  messages,           \* the chat page's messages state
  userInput,          \* the chat page's userInput state
  isThinking,         \* the chat page's isThinking state
  thinkingPersona,    \* the chat page's thinkingPersona state
  mentionQuery,       \* the chat page's mentionQuery state
  showSummaryModal,   \* the chat page's showSummaryModal state
  summary,            \* the chat page's summary state
  isSummarizing,      \* the chat page's isSummarizing state
  loops,              \* per mount of the chat page: where its handleSendMessage call is
  pageSends,          \* the number of chat messages the page shown has accepted
  inflight,           \* the requests to the AI service that have not settled
  issued,             \* the requests made so far, by what caused them (a bag)
  submits,            \* the number of Generate Personas submissions that made a request
  sends,              \* the number of chat messages accepted so far
  clicks              \* the number of End Session clicks so far

\* One buffer of microphone samples and the PCM data createBlob makes of it.
VARIABLES
  data,           \* the Float32Array: each sample as its numerator over SampleDenominator
  int16,          \* the Int16Array createBlob fills
  blobPc          \* "start", or "done" once createBlob has run

authVars == <<storage, users, btoaAvailable, now, pending, user, loading, error,
              lastResult, signedUp, calls>>

hashVars == <<pwGiven, pwTried, storedHash, accepted, hashPc>>

callVars == <<apiKey, activeCall, mounts, callInst, pendingCallSummary, transcript,
              transcriptQueue, connectionStatus, isMuted, isModelSpeaking, inputBuf,
              outputBuf, nextStartTime, currentTime, sources, audioSources, decodeQueue,
              expected, sentWhileMuted, received>>

dashVars == <<dashMounts, topic, loadingPersonas, generatedPersonas, generatedFor, checked,
              selectedPersonas, dashError>>

chatVars == <<chatMounts, messages, userInput, isThinking, thinkingPersona, mentionQuery,
              showSummaryModal, summary, isSummarizing, loops, pageSends>>

uiVars == <<sessionConfig, sessionHistory, dashVars, chatVars, inflight, issued,
            submits, sends, clicks>>

\* The variables a specification of one part leaves alone.
blobVars == <<data, int16, blobPc>>

nonAuthVars == <<hashVars, callVars, uiVars, blobVars>>
nonHashVars == <<authVars, callVars, uiVars, blobVars>>
nonCallVars == <<authVars, hashVars, uiVars, blobVars>>
nonUiVars == <<authVars, hashVars, callVars, blobVars>>
nonBlobVars == <<authVars, hashVars, callVars, uiVars>>

\* ------------------------------------------------------------------------
\* Bounds of the model.
\* ------------------------------------------------------------------------

\* The samples of the model are the multiples of 1 / SampleDenominator in
\* [-1, 1].
SampleDenominator == 6
\* The longest buffer of samples converted, in samples.
MaxSamples == 2
\* The longest password hashed, in characters.
MaxPwLen == 2
\* The most authService calls whose 500 ms timer has not fired yet.
MaxPending == 2
\* The latest value Date.now() takes.
MaxNow == 1
\* The most authService calls made in one run.
MaxCalls == 3
\* The most times the call page is mounted in one run.
MaxMounts == 2
\* The most transcription fragments the server sends in one run.
MaxFragments == 3
\* The most turnComplete signals the server sends in one run.
MaxTurns == 2
\* The most audio chunks the server sends in one run.
MaxChunks == 2
\* The latest value outputAudioContext.currentTime takes.
MaxTime == 2
\* The most error events a connection reports in one run.
MaxErrors == 1
\* The most times the chat page is mounted in one run.
MaxChatMounts == 2
\* The most times the chat page is mounted in a run of the session history.
MaxPages == 3
\* The most End Session clicks in a run of the session history.
MaxSessions == 3
\* The most Generate Personas submissions in a run of the session history.
MaxGenerations == 2
\* The most chat messages accepted: in one run, or by one mount of the chat
\* page.
MaxSent == 1
\* The most Generate Personas submissions that make a request in one run.
MaxSubmits == 1
\* The most End Session clicks in one run.
MaxClicks == 1

\* ------------------------------------------------------------------------
\* authService: the password encoding.
\* ------------------------------------------------------------------------

\* 'somesalt', as character codes.
Salt == <<115, 111, 109, 101, 115, 97, 108, 116>>

\* The character codes a password is made of: 'a', the Latin-1 character
\* U+00AC, and the euro sign U+20AC, which btoa refuses.
PwChars == {97, 172, 8364}

RECURSIVE SeqsUpTo(_, _)
SeqsUpTo(S, n) ==
  IF n = 0 THEN {<<>>}
  ELSE LET shorter == SeqsUpTo(S, n - 1)
       IN shorter \cup {Append(s, c) : s \in {t \in shorter : Len(t) = n - 1}, c \in S}

Passwords == SeqsUpTo(PwChars, MaxPwLen)

\* The passwords the authService calls are made with: one that btoa
\* encodes and one that it refuses.
AuthPasswords == {<<97>>, <<8364>>}

\* The character code of the base64 digit with value i.
B64Code(i) ==
  IF i < 26 THEN 65 + i
  ELSE IF i < 52 THEN 97 + (i - 26)
  ELSE IF i < 62 THEN 48 + (i - 52)
  ELSE IF i = 62 THEN 43
  ELSE 47

\* '=': the base64 padding.
B64Pad == 61

\* btoa refuses a string that holds a character above U+00FF.
BtoaThrows(s) == \E i \in 1..Len(s) : s[i] > 255

\* btoa of a string of Latin-1 characters: three bytes become four digits,
\* and the last one or two bytes are padded.
RECURSIVE Btoa(_)
Btoa(s) ==
  IF Len(s) = 0 THEN <<>>
  ELSE IF Len(s) = 1 THEN
    LET n == s[1] * 65536
    IN <<B64Code(n \div 262144), B64Code((n \div 4096) % 64), B64Pad, B64Pad>>
  ELSE IF Len(s) = 2 THEN
    LET n == s[1] * 65536 + s[2] * 256
    IN <<B64Code(n \div 262144), B64Code((n \div 4096) % 64),
         B64Code((n \div 64) % 64), B64Pad>>
  ELSE
    LET n == s[1] * 65536 + s[2] * 256 + s[3]
    IN <<B64Code(n \div 262144), B64Code((n \div 4096) % 64),
         B64Code((n \div 64) % 64), B64Code(n % 64)>>
       \o Btoa(SubSeq(s, 4, Len(s)))

\* A plausible slip: the string is cut to bytes before it is encoded, so
\* btoa never throws and the fallback is never taken.
hashPasswordBytes(password) ==
  IF btoaAvailable
  THEN Btoa([i \in 1..(Len(password) + Len(Salt)) |-> (password \o Salt)[i] % 256])
  ELSE password

\* hashPassword: btoa(password + 'somesalt'), and the password itself when
\* btoa throws (btoa is missing, or a character is above U+00FF).
hashPassword(password) ==
  IF btoaAvailable /\ ~BtoaThrows(password \o Salt)
  THEN Btoa(password \o Salt)
  ELSE password

\* ------------------------------------------------------------------------
\* authService: the user store.
\* ------------------------------------------------------------------------

Emails == {"a@x", "b@x"}

\* null, for a state that holds a record or null.
Null == [null |-> TRUE]

\* null, for a state that holds a string or null.
NoError == "<null>"

ErrExists == "An account with this email already exists."
ErrInvalid == "Invalid email or password."

\* Number.prototype.toString: the decimal digits of n.
RECURSIVE NumberToString(_)
NumberToString(n) ==
  IF n < 10 THEN <<n>> ELSE NumberToString(n \div 10) \o <<n % 10>>

\* loadUsers: the list parsed from the item under USERS_STORAGE_KEY, and
\* the empty list when there is no item. (storage is <<>> for no item and
\* <<list>> for an item holding the JSON text of list.)
loadUsers == IF storage = <<>> THEN <<>> ELSE storage[1]

\* saveUsers: the item is set to the JSON text of the list; when setItem
\* throws (stored == FALSE) the error is logged and the item is left as it was.
saveUsers(list, stored) == IF stored THEN <<list>> ELSE storage

\* Array.prototype.find: the first element with the email, or Null.
RECURSIVE Find(_, _)
Find(list, email) ==
  IF list = <<>> THEN Null
  ELSE IF Head(list).email = email THEN Head(list)
  ELSE Find(Tail(list), email)

\* A plausible slip: the whole stored record is returned.
userToReturnWhole(u) == u

\* const { hashedPassword: _, ...userToReturn } = user
userToReturn(u) == [id |-> u.id, email |-> u.email]

\* A plausible slip: only the email is looked up.
LoginRejectsEmailOnly(found, password) == found = Null

\* login's test: !user || user.hashedPassword !== hashPassword(password)
LoginRejects(found, password) ==
  found = Null \/ found.hashedPassword # hashPassword(password)

\* A plausible slip: signUp does not look the email up.
EmailTakenNever(list, email) == FALSE

\* signUp's test: users.find(user => user.email === email)
EmailTaken(list, email) == Find(list, email) # Null

\* A plausible slip: loading is reset only when the call succeeded.
SettledNoFinally(call, ok, value) ==
  /\ pending' = Tail(pending)
  /\ user' = IF ok THEN value ELSE user
  /\ error' = IF ok THEN error ELSE value.message
  /\ loading' = IF ok THEN FALSE ELSE loading
  /\ lastResult' = [op |-> call.op, email |-> call.email, password |-> call.password,
                    ok |-> ok, value |-> value, rethrown |-> ~ok]

\* The state the AuthProvider is left in, and what its caller sees, when the
\* awaited authService promise settles.
Settled(call, ok, value) ==
  /\ pending' = Tail(pending)
  /\ user' = IF ok THEN value ELSE user
  /\ error' = IF ok THEN error ELSE value.message
  /\ loading' = FALSE
  /\ lastResult' = [op |-> call.op, email |-> call.email, password |-> call.password,
                    ok |-> ok, value |-> value, rethrown |-> ~ok]

\* AuthProvider.login up to its await: the 500 ms timer of authService.login
\* is started.
AuthProviderLogin(email, password) ==
  /\ Len(pending) < MaxPending
  /\ calls < MaxCalls
  /\ calls' = calls + 1
  /\ loading' = TRUE
  /\ error' = NoError
  /\ pending' = Append(pending, [op |-> "login", email |-> email, password |-> password])
  /\ UNCHANGED <<storage, users, btoaAvailable, now, user, lastResult, signedUp>>

\* AuthProvider.signUp up to its await.
AuthProviderSignUp(email, password) ==
  /\ Len(pending) < MaxPending
  /\ calls < MaxCalls
  /\ calls' = calls + 1
  /\ loading' = TRUE
  /\ error' = NoError
  /\ pending' = Append(pending, [op |-> "signUp", email |-> email, password |-> password])
  /\ UNCHANGED <<storage, users, btoaAvailable, now, user, lastResult, signedUp>>

\* The timer callback of authService.login, and the rest of
\* AuthProvider.login, which runs when the promise settles. Timers of equal
\* delay fire in the order they were started.
authServiceLogin ==
  /\ pending # <<>>
  /\ Head(pending).op = "login"
  /\ LET call == Head(pending)
         found == Find(loadUsers, call.email)
     IN /\ users' = loadUsers
        /\ IF LoginRejects(found, call.password)
           THEN Settled(call, FALSE, [message |-> ErrInvalid])
           ELSE Settled(call, TRUE, userToReturn(found))
  /\ UNCHANGED <<storage, btoaAvailable, now, signedUp, calls>>

\* The timer callback of authService.signUp, and the rest of
\* AuthProvider.signUp.
authServiceSignUp ==
  /\ pending # <<>>
  /\ Head(pending).op = "signUp"
  /\ LET call == Head(pending)
     IN IF EmailTaken(loadUsers, call.email)
        THEN /\ users' = loadUsers
             /\ Settled(call, FALSE, [message |-> ErrExists])
             /\ UNCHANGED <<storage, signedUp>>
        ELSE \E stored \in BOOLEAN :
               LET newUser == [id |-> NumberToString(now), email |-> call.email,
                               hashedPassword |-> hashPassword(call.password)]
               IN /\ users' = Append(loadUsers, newUser)
                  /\ storage' = saveUsers(Append(loadUsers, newUser), stored)
                  /\ Settled(call, TRUE, userToReturn(newUser))
                  /\ signedUp' = signedUp \cup
                       {[id |-> newUser.id, email |-> call.email, password |-> call.password]}
  /\ UNCHANGED <<btoaAvailable, now, calls>>

\* AuthProvider.logout.
logout ==
  /\ user' = Null
  /\ UNCHANGED <<storage, users, btoaAvailable, now, pending, loading, error,
                 lastResult, signedUp, calls>>

\* AuthProvider.clearError.
clearError ==
  /\ error' = NoError
  /\ UNCHANGED <<storage, users, btoaAvailable, now, pending, user, loading,
                 lastResult, signedUp, calls>>

\* Time passes: Date.now() grows.
Tick ==
  /\ now < MaxNow
  /\ now' = now + 1
  /\ UNCHANGED <<storage, users, btoaAvailable, pending, user, loading, error,
                 lastResult, signedUp, calls>>

InitAuth ==
  /\ storage = <<>>
  /\ users = <<>>
  /\ btoaAvailable \in BOOLEAN
  /\ now = 0
  /\ pending = <<>>
  /\ user = Null
  /\ loading = FALSE
  /\ error = NoError
  /\ lastResult = [op |-> "none"]
  /\ signedUp = {}
  /\ calls = 0

NextAuth ==
  \/ \E email \in Emails, password \in AuthPasswords :
       AuthProviderLogin(email, password) /\ UNCHANGED nonAuthVars
  \/ \E email \in Emails, password \in AuthPasswords :
       AuthProviderSignUp(email, password) /\ UNCHANGED nonAuthVars
  \/ authServiceLogin /\ UNCHANGED nonAuthVars
  \/ authServiceSignUp /\ UNCHANGED nonAuthVars
  \/ logout /\ UNCHANGED nonAuthVars
  \/ clearError /\ UNCHANGED nonAuthVars
  \/ Tick /\ UNCHANGED nonAuthVars


\* ------------------------------------------------------------------------
\* hashPassword on its own: signUp stores the encoding of one password and
\* login compares it with the encoding of another.
\* ------------------------------------------------------------------------

\* signUp's line: const hashedPassword = hashPassword(password)
HashStore ==
  /\ hashPc = "start"
  /\ storedHash' = hashPassword(pwGiven)
  /\ hashPc' = "stored"
  /\ UNCHANGED <<pwGiven, pwTried, accepted>>

\* login's test against the stored user.
HashCompare ==
  /\ hashPc = "stored"
  /\ accepted' = ~LoginRejects([id |-> <<0>>, email |-> "a@x", hashedPassword |-> storedHash],
                               pwTried)
  /\ hashPc' = "compared"
  /\ UNCHANGED <<pwGiven, pwTried, storedHash>>

InitHash ==
  /\ pwGiven \in Passwords
  /\ pwTried \in Passwords
  /\ storedHash = <<>>
  /\ accepted = FALSE
  /\ hashPc = "start"

\* The state of the password pair when it is not under study.
IdleHash ==
  /\ pwGiven = <<>>
  /\ pwTried = <<>>
  /\ storedHash = <<>>
  /\ accepted = FALSE
  /\ hashPc = "start"


\* ------------------------------------------------------------------------
\* Text: a string is a sequence of pieces. A piece is one character where
\* the characters matter, and a string literal of the code is one piece.
\* ------------------------------------------------------------------------

Lit(str) == <<str>>

IsSpace(c) == c = " "

\* String.prototype.trimStart and trimEnd, for the space character.
RECURSIVE TrimStart(_)
TrimStart(t) ==
  IF t # <<>> /\ IsSpace(Head(t)) THEN TrimStart(Tail(t)) ELSE t

RECURSIVE TrimEnd(_)
TrimEnd(t) ==
  IF t # <<>> /\ IsSpace(t[Len(t)]) THEN TrimEnd(SubSeq(t, 1, Len(t) - 1)) ELSE t

\* A plausible slip: only the end is trimmed.
TrimEndOnly(t) == TrimEnd(t)

\* String.prototype.trim
Trim(t) == TrimEnd(TrimStart(t))

\* String.prototype.startsWith
StartsWith(t, prefix) ==
  Len(prefix) <= Len(t) /\ SubSeq(t, 1, Len(prefix)) = prefix

Max(a, b) == IF a >= b THEN a ELSE b

\* ------------------------------------------------------------------------
\* GroupCallPage.
\* ------------------------------------------------------------------------

\* config.personas of the call, by name.
CallPersonas == <<<<"a">>, <<"b">>>>

\* The transcription fragments the server sends; <<>> is a message without
\* that transcription.
Fragments == {<<" ">>, <<"a">>}

\* The durations of the audio chunks the server sends; 0 is a message
\* without audio.
Durations == {1, 2}

Entry(sender, text) == [sender |-> sender, text |-> text]

\* A mount of the call page that has not happened yet.
UnusedInst ==
  [life |-> "unused", gum |-> "idle", stream |-> "none", streamRef |-> FALSE,
   inCtx |-> "none", outCtx |-> "none", conn |-> "none", connects |-> 0,
   processor |-> "none"]

\* A setTranscript updater: one that appends a fixed entry, or one that
\* appends an entry whose text it reads from a transcription ref when React
\* runs it.
LitUpdater(e) == [kind |-> "lit", entry |-> e]
RefUpdater(sender, ref) == [kind |-> "ref", sender |-> sender, ref |-> ref]

\* prev => [...prev, entry], run with the refs holding inB and outB.
RunUpdater(t, u, inB, outB) ==
  Append(t, IF u.kind = "lit" THEN u.entry
            ELSE Entry(u.sender, Trim(IF u.ref = "input" THEN inB ELSE outB)))

RECURSIVE RunUpdaters(_, _, _, _)
RunUpdaters(t, q, inB, outB) ==
  IF q = <<>> THEN t
  ELSE RunUpdaters(RunUpdater(t, Head(q), inB, outB), Tail(q), inB, outB)

\* setTranscript(updater), as <<transcript, queue>>. React runs the updater
\* at once when nothing is queued for the component and it computes the state
\* eagerly (or renders synchronously); otherwise it queues the updater and
\* runs it when it renders.
SetTranscript(tq, u, eager, inB, outB) ==
  IF tq[2] = <<>> /\ eager
  THEN <<RunUpdater(tq[1], u, inB, outB), tq[2]>>
  ELSE <<tq[1], Append(tq[2], u)>>

\* config.personas.find(p => text.startsWith(p.name))?.name || 'Assistant'
RECURSIVE PersonaNameOf(_, _)
PersonaNameOf(personas, t) ==
  IF personas = <<>> THEN Lit("Assistant")
  ELSE IF StartsWith(t, Head(personas)) THEN Head(personas)
  ELSE PersonaNameOf(Tail(personas), t)

\* The closure of onaudioprocess holds the isMuted of the render whose
\* effect created it; the effect does not depend on isMuted, so that is the
\* initial state.
IsMutedInClosure == FALSE

\* A plausible slip: the session is closed only if it is open when the page
\* is left.
ConnAfterOpenNoClose(inst) == "open"

\* What becomes of the connection when connect's promise resolves: cleanup
\* has chained session.close() onto the promise if the page was left.
ConnAfterOpen(inst) == IF inst.life = "mounted" THEN "open" ELSE "closed"

\* The sources of the set are stopped.
StopAll(srcs, set) ==
  [k \in 1..Len(srcs) |-> IF k \in set THEN [srcs[k] EXCEPT !.stopped = TRUE] ELSE srcs[k]]

\* App.handleStartCall, the mount of GroupCallPage, and setupLiveSession up
\* to its first await.
StartCall ==
  /\ ~activeCall
  /\ mounts < MaxMounts
  /\ decodeQueue = <<>>
  /\ activeCall' = TRUE
  /\ mounts' = mounts + 1
  /\ callInst' = [callInst EXCEPT ![mounts + 1] =
       [UnusedInst EXCEPT !.life = "mounted",
                          !.gum = IF apiKey THEN "pending" ELSE "idle"]]
  /\ transcript' = IF apiKey THEN <<>>
                   ELSE <<Entry(Lit("System"), Lit("API Key not configured."))>>
  /\ transcriptQueue' = <<>>
  /\ connectionStatus' = IF apiKey THEN "connecting" ELSE "error"
  /\ isMuted' = FALSE
  /\ isModelSpeaking' = FALSE
  /\ inputBuf' = <<>>
  /\ outputBuf' = <<>>
  /\ nextStartTime' = 0
  /\ currentTime' = 0
  /\ sources' = <<>>
  /\ audioSources' = {}
  /\ expected' = <<>>
  /\ UNCHANGED <<apiKey, pendingCallSummary, decodeQueue, sentWhileMuted, received>>

\* getUserMedia resolves for mount i: the rest of the try block, up to the
\* call of ai.live.connect, whose promise is not awaited.
GetUserMediaResolves(i) ==
  /\ decodeQueue = <<>>
  /\ callInst[i].gum = "pending"
  /\ callInst' = [callInst EXCEPT ![i] =
       IF callInst[i].life = "mounted"
       THEN [@ EXCEPT !.gum = "resolved", !.stream = "live", !.streamRef = TRUE,
                      !.inCtx = "running", !.outCtx = "running",
                      !.conn = "connecting", !.connects = @ + 1]
       ELSE [@ EXCEPT !.gum = "resolved", !.stream = "live"]]
  /\ UNCHANGED <<apiKey, activeCall, mounts, pendingCallSummary, transcript,
                 transcriptQueue, connectionStatus, isMuted, isModelSpeaking, inputBuf,
                 outputBuf, nextStartTime, currentTime, sources, audioSources,
                 decodeQueue, expected, sentWhileMuted, received>>

\* getUserMedia rejects for mount i: the catch block.
GetUserMediaRejects(i) ==
  /\ decodeQueue = <<>>
  /\ callInst[i].gum = "pending"
  /\ callInst' = [callInst EXCEPT ![i].gum = "rejected"]
  /\ IF callInst[i].life = "mounted"
     THEN /\ connectionStatus' = "error"
          /\ LET tq == SetTranscript(<<transcript, transcriptQueue>>,
                         LitUpdater(Entry(Lit("System"), Lit("Failed to access microphone."))),
                         TRUE, inputBuf, outputBuf)
             IN transcript' = tq[1] /\ transcriptQueue' = tq[2]
     ELSE UNCHANGED <<connectionStatus, transcript, transcriptQueue>>
  /\ UNCHANGED <<apiKey, activeCall, mounts, pendingCallSummary, isMuted,
                 isModelSpeaking, inputBuf, outputBuf, nextStartTime, currentTime,
                 sources, audioSources, decodeQueue, expected, sentWhileMuted, received>>

\* The connection of mount i opens: the onopen callback, then connect's
\* promise resolves and session.close() runs if cleanup chained it.
ConnectResolves(i) ==
  /\ decodeQueue = <<>>
  /\ callInst[i].conn = "connecting"
  /\ callInst' = [callInst EXCEPT ![i] =
       [@ EXCEPT !.conn = ConnAfterOpen(callInst[i]),
                 !.processor = IF callInst[i].life = "mounted" THEN "connected" ELSE @]]
  /\ IF callInst[i].life = "mounted"
     THEN /\ connectionStatus' = "live"
          /\ LET tq == SetTranscript(<<transcript, transcriptQueue>>,
                         LitUpdater(Entry(Lit("System"),
                                          Lit("Connection opened. You can start speaking."))),
                         TRUE, inputBuf, outputBuf)
             IN transcript' = tq[1] /\ transcriptQueue' = tq[2]
     ELSE UNCHANGED <<connectionStatus, transcript, transcriptQueue>>
  /\ UNCHANGED <<apiKey, activeCall, mounts, pendingCallSummary, isMuted,
                 isModelSpeaking, inputBuf, outputBuf, nextStartTime, currentTime,
                 sources, audioSources, decodeQueue, expected, sentWhileMuted, received>>

\* The connection of mount i fails to open: connect's promise rejects, and
\* nothing awaits it.
ConnectRejects(i) ==
  /\ decodeQueue = <<>>
  /\ callInst[i].conn = "connecting"
  /\ callInst' = [callInst EXCEPT ![i].conn = "failed"]
  /\ UNCHANGED <<apiKey, activeCall, mounts, pendingCallSummary, transcript,
                 transcriptQueue, connectionStatus, isMuted, isModelSpeaking, inputBuf,
                 outputBuf, nextStartTime, currentTime, sources, audioSources,
                 decodeQueue, expected, sentWhileMuted, received>>

\* The user and persona entries a completed turn must add: the texts are
\* the trimmed transcriptions as they are when turnComplete arrives.
TurnEntries(inB, outB) ==
  (IF Trim(inB) # <<>> THEN <<Entry(Lit("User"), Trim(inB))>> ELSE <<>>)
  \o (IF Trim(outB) # <<>>
      THEN <<Entry(PersonaNameOf(CallPersonas, outB), Trim(outB))>> ELSE <<>>)

\* The part of onmessage for turnComplete, as <<transcript, queue>>.
TurnComplete(tq, inB, outB, eagerIn, eagerOut) ==
  LET tq1 == IF Trim(inB) # <<>>
             THEN SetTranscript(tq, RefUpdater(Lit("User"), "input"), eagerIn, inB, outB)
             ELSE tq
  IN IF Trim(outB) # <<>>
     THEN SetTranscript(tq1, RefUpdater(PersonaNameOf(CallPersonas, outB), "output"),
                        eagerOut, inB, outB)
     ELSE tq1

Count(b) == IF b THEN 1 ELSE 0

\* A plausible slip: a chunk is scheduled at the current output time.
ScheduleAtNow(next, time) == time

\* Math.max(nextStartTimeRef.current, outputCtx.currentTime)
ScheduleAt(next, time) == Max(next, time)

\* The chunks whose handlers wait at the decoding when a message with
\* 'interrupted' arrives were received before the interruption.
MarkStale(queue, interrupted) ==
  IF interrupted THEN [k \in 1..Len(queue) |-> [queue[k] EXCEPT !.stale = TRUE]]
  ELSE queue

\* onmessage up to its await: the transcriptions, turnComplete, and for a
\* message with audio the lines before the decoding; for one without audio
\* the interruption. eagerIn and eagerOut say whether React runs the
\* updaters of the two entries at once.
OnMessage(outF, inF, turnComplete, dur, interrupted, eagerIn, eagerOut) ==
  /\ activeCall
  /\ callInst[mounts].conn = "open"
  /\ received.fragments + Count(outF # <<>>) + Count(inF # <<>>) <= MaxFragments
  /\ received.turns + Count(turnComplete) <= MaxTurns
  /\ received.chunks + Count(dur > 0) <= MaxChunks
  /\ received' = [received EXCEPT !.fragments = @ + Count(outF # <<>>) + Count(inF # <<>>),
                                  !.turns = @ + Count(turnComplete),
                                  !.chunks = @ + Count(dur > 0),
                                  !.interrupted = @ \/ interrupted]
  /\ LET outB == outputBuf \o outF
         inB == inputBuf \o inF
         tq == TurnComplete(<<transcript, transcriptQueue>>, inB, outB, eagerIn, eagerOut)
     IN IF turnComplete
        THEN /\ transcript' = tq[1]
             /\ transcriptQueue' = tq[2]
             /\ expected' = expected \o TurnEntries(inB, outB)
             /\ inputBuf' = <<>>
             /\ outputBuf' = <<>>
        ELSE /\ inputBuf' = inB
             /\ outputBuf' = outB
             /\ UNCHANGED <<transcript, transcriptQueue, expected>>
  /\ IF dur > 0
     THEN /\ isModelSpeaking' = TRUE
          /\ nextStartTime' = ScheduleAt(nextStartTime, currentTime)
          /\ decodeQueue' = Append(MarkStale(decodeQueue, interrupted),
                                   [dur |-> dur, interrupted |-> interrupted,
                                    stale |-> FALSE])
          /\ UNCHANGED <<sources, audioSources>>
     ELSE IF interrupted
     THEN /\ sources' = StopAll(sources, audioSources)
          /\ audioSources' = {}
          /\ nextStartTime' = 0
          /\ isModelSpeaking' = FALSE
          /\ decodeQueue' = MarkStale(decodeQueue, interrupted)
     ELSE UNCHANGED <<isModelSpeaking, nextStartTime, decodeQueue, sources, audioSources>>
  /\ UNCHANGED <<apiKey, activeCall, mounts, callInst, pendingCallSummary,
                 connectionStatus, isMuted, currentTime, sentWhileMuted>>

\* onmessage after its await, for the oldest handler waiting there: the
\* source is started and registered, then the interruption of the same
\* message is handled.
ResumeDecode ==
  /\ decodeQueue # <<>>
  /\ LET d == Head(decodeQueue)
         k == Len(sources) + 1
         started == Append(sources, [start |-> nextStartTime,
                                     begins |-> Max(nextStartTime, currentTime),
                                     dur |-> d.dur, stopped |-> FALSE, ended |-> FALSE,
                                     stale |-> d.stale])
     IN IF d.interrupted
        THEN /\ sources' = StopAll(started, audioSources \cup {k})
             /\ audioSources' = {}
             /\ nextStartTime' = 0
             /\ isModelSpeaking' = FALSE
        ELSE /\ sources' = started
             /\ audioSources' = audioSources \cup {k}
             /\ nextStartTime' = nextStartTime + d.dur
             /\ UNCHANGED isModelSpeaking
  /\ decodeQueue' = Tail(decodeQueue)
  /\ UNCHANGED <<apiKey, activeCall, mounts, callInst, pendingCallSummary, transcript,
                 transcriptQueue, connectionStatus, isMuted, inputBuf, outputBuf,
                 currentTime, expected, sentWhileMuted, received>>

\* The 'ended' listener of source k, which has played to its end or was
\* stopped.
SourceEnded(k) ==
  /\ decodeQueue = <<>>
  /\ k \in 1..Len(sources)
  /\ ~sources[k].ended
  /\ sources[k].stopped \/ sources[k].begins + sources[k].dur <= currentTime
  /\ sources' = [sources EXCEPT ![k].ended = TRUE]
  /\ audioSources' = audioSources \ {k}
  /\ isModelSpeaking' = IF activeCall /\ audioSources \ {k} = {} THEN FALSE ELSE isModelSpeaking
  /\ UNCHANGED <<apiKey, activeCall, mounts, callInst, pendingCallSummary, transcript,
                 transcriptQueue, connectionStatus, isMuted, inputBuf, outputBuf,
                 nextStartTime, currentTime, decodeQueue, expected, sentWhileMuted, received>>

\* The clock of the output audio context advances.
AudioClockTick ==
  /\ decodeQueue = <<>>
  /\ activeCall
  /\ callInst[mounts].outCtx = "running"
  /\ currentTime < MaxTime
  /\ currentTime' = currentTime + 1
  /\ UNCHANGED <<apiKey, activeCall, mounts, callInst, pendingCallSummary, transcript,
                 transcriptQueue, connectionStatus, isMuted, isModelSpeaking, inputBuf,
                 outputBuf, nextStartTime, sources, audioSources, decodeQueue, expected,
                 sentWhileMuted, received>>

\* The onerror callback.
OnError ==
  /\ decodeQueue = <<>>
  /\ activeCall
  /\ callInst[mounts].conn = "open"
  /\ received.errors < MaxErrors
  /\ received' = [received EXCEPT !.errors = @ + 1]
  /\ connectionStatus' = "error"
  /\ LET tq == SetTranscript(<<transcript, transcriptQueue>>,
                 LitUpdater(Entry(Lit("System"), Lit("An error occurred."))),
                 TRUE, inputBuf, outputBuf)
     IN transcript' = tq[1] /\ transcriptQueue' = tq[2]
  /\ UNCHANGED <<apiKey, activeCall, mounts, callInst, pendingCallSummary, isMuted,
                 isModelSpeaking, inputBuf, outputBuf, nextStartTime, currentTime,
                 sources, audioSources, decodeQueue, expected, sentWhileMuted>>

\* The server closes the connection of mount i: the onclose callback.
OnClose(i) ==
  /\ decodeQueue = <<>>
  /\ callInst[i].conn = "open"
  /\ callInst' = [callInst EXCEPT ![i].conn = "closed"]
  /\ connectionStatus' = IF callInst[i].life = "mounted" THEN "ended" ELSE connectionStatus
  /\ UNCHANGED <<apiKey, activeCall, mounts, pendingCallSummary, transcript,
                 transcriptQueue, isMuted, isModelSpeaking, inputBuf, outputBuf,
                 nextStartTime, currentTime, sources, audioSources, decodeQueue,
                 expected, sentWhileMuted, received>>

\* The mute button: setIsMuted(!isMuted).
ToggleMute ==
  /\ decodeQueue = <<>>
  /\ activeCall
  /\ isMuted' = ~isMuted
  /\ UNCHANGED <<apiKey, activeCall, mounts, callInst, pendingCallSummary, transcript,
                 transcriptQueue, connectionStatus, isModelSpeaking, inputBuf, outputBuf,
                 nextStartTime, currentTime, sources, audioSources, decodeQueue,
                 expected, sentWhileMuted, received>>

\* scriptProcessor.onaudioprocess: a buffer of microphone samples is sent
\* unless the isMuted of the closure is set.
AudioProcess ==
  /\ decodeQueue = <<>>
  /\ activeCall
  /\ callInst[mounts].processor = "connected"
  /\ callInst[mounts].conn = "open"
  /\ ~IsMutedInClosure
  /\ sentWhileMuted' = (sentWhileMuted \/ isMuted)
  /\ UNCHANGED <<apiKey, activeCall, mounts, callInst, pendingCallSummary, transcript,
                 transcriptQueue, connectionStatus, isMuted, isModelSpeaking, inputBuf,
                 outputBuf, nextStartTime, currentTime, sources, audioSources,
                 decodeQueue, expected, received>>

\* React renders the call page: the queued updaters run, reading the refs
\* as they are now.
ReactRender ==
  /\ decodeQueue = <<>>
  /\ activeCall
  /\ transcriptQueue # <<>>
  /\ transcript' = RunUpdaters(transcript, transcriptQueue, inputBuf, outputBuf)
  /\ transcriptQueue' = <<>>
  /\ UNCHANGED <<apiKey, activeCall, mounts, callInst, pendingCallSummary,
                 connectionStatus, isMuted, isModelSpeaking, inputBuf, outputBuf,
                 nextStartTime, currentTime, sources, audioSources, decodeQueue,
                 expected, sentWhileMuted, received>>

\* The cleanup of the effect, for a mounted page.
cleanup(inst) ==
  [inst EXCEPT !.life = "left",
               !.conn = IF @ = "open" THEN "closed" ELSE @,
               !.stream = IF inst.streamRef THEN "stopped" ELSE @,
               !.processor = IF @ = "connected" THEN "disconnected" ELSE @,
               !.inCtx = IF @ = "running" THEN "closed" ELSE @,
               !.outCtx = IF @ = "running" THEN "closed" ELSE @]

\* The End Call button: handleEndCall passes the rendered transcript to
\* App.handleEndCall, the page unmounts, its cleanup runs and its state and
\* refs are gone.
EndCall ==
  /\ decodeQueue = <<>>
  /\ activeCall
  /\ activeCall' = FALSE
  /\ pendingCallSummary' = transcript
  /\ callInst' = [callInst EXCEPT ![mounts] = cleanup(callInst[mounts])]
  /\ transcript' = <<>>
  /\ transcriptQueue' = <<>>
  /\ connectionStatus' = "connecting"
  /\ isMuted' = FALSE
  /\ isModelSpeaking' = FALSE
  /\ inputBuf' = <<>>
  /\ outputBuf' = <<>>
  /\ nextStartTime' = 0
  /\ currentTime' = 0
  /\ sources' = <<>>
  /\ audioSources' = {}
  /\ expected' = <<>>
  /\ UNCHANGED <<apiKey, mounts, decodeQueue, sentWhileMuted, received>>

\* No call page has been mounted.
NoCallYet ==
  /\ activeCall = FALSE
  /\ mounts = 0
  /\ callInst = [i \in 1..MaxMounts |-> UnusedInst]
  /\ pendingCallSummary = Null
  /\ transcript = <<>>
  /\ transcriptQueue = <<>>
  /\ connectionStatus = "connecting"
  /\ isMuted = FALSE
  /\ isModelSpeaking = FALSE
  /\ inputBuf = <<>>
  /\ outputBuf = <<>>
  /\ nextStartTime = 0
  /\ currentTime = 0
  /\ sources = <<>>
  /\ audioSources = {}
  /\ decodeQueue = <<>>
  /\ expected = <<>>
  /\ sentWhileMuted = FALSE
  /\ received = [fragments |-> 0, turns |-> 0, chunks |-> 0, errors |-> 0,
                 interrupted |-> FALSE]

\* ------------------------------------------------------------------------
\* The call page: createBlob.
\* ------------------------------------------------------------------------

\* The samples a buffer holds, as numerators over SampleDenominator.
Samples == (-SampleDenominator)..SampleDenominator

\* The integer part of num / den, den positive: the fraction is dropped,
\* as the conversion of a number to an integer type drops it.
Trunc(num, den) == IF num >= 0 THEN num \div den ELSE -((-num) \div den)

\* The value an Int16Array element takes when the integer v is stored in
\* it: v modulo 2^16, in [-32768, 32767].
ToInt16(v) == IF v % 65536 >= 32768 THEN (v % 65536) - 65536 ELSE v % 65536

\* int16[i] = data[i] * 32768, for the sample n / SampleDenominator.
Int16Of(n) == ToInt16(Trunc(n * 32768, SampleDenominator))

\* createBlob: the Int16Array it encodes.
createBlob(d) == [k \in 1..Len(d) |-> Int16Of(d[k])]

\* onaudioprocess calls createBlob with the buffer of the event.
CreateBlob ==
  /\ blobPc = "start"
  /\ int16' = createBlob(data)
  /\ blobPc' = "done"
  /\ UNCHANGED data

\* A buffer of one to MaxSamples samples.
InitBlob ==
  /\ data \in UNION {[1..n -> Samples] : n \in 1..MaxSamples}
  /\ int16 = <<>>
  /\ blobPc = "start"

\* The state of the buffer when it is not under study.
IdleBlob ==
  /\ data = <<>>
  /\ int16 = <<>>
  /\ blobPc = "start"

\* ------------------------------------------------------------------------
\* App, DashboardPage and GroupChatPage.
\* ------------------------------------------------------------------------

\* The characters \w matches, of those the model uses.
WordChars == {"A", "B", "C", "a", "b", "c", "h"}

IsWordChar(c) == c \in WordChars

\* The index of the last character of the longest run of word characters
\* that starts at i; i - 1 if there is none.
RECURSIVE WordRunEnd(_, _)
WordRunEnd(t, i) ==
  IF i <= Len(t) /\ IsWordChar(t[i]) THEN WordRunEnd(t, i + 1) ELSE i - 1

\* Where the match of @(\w+\s?\w*) that starts at the '@' at i ends; 0 if
\* there is no match there.
MentionEnd(t, i) ==
  LET first == WordRunEnd(t, i + 1)
      space == IF first + 1 <= Len(t) /\ IsSpace(t[first + 1]) THEN first + 1 ELSE first
  IN IF first < i + 1 THEN 0 ELSE WordRunEnd(t, space + 1)

\* text.match(/@(\w+\s?\w*)/g), from index i on: the matches, left to right,
\* without overlap.
RECURSIVE Mentions(_, _)
Mentions(t, i) ==
  IF i > Len(t) THEN <<>>
  ELSE IF t[i] = "@" /\ MentionEnd(t, i) # 0
  THEN <<SubSeq(t, i, MentionEnd(t, i))>> \o Mentions(t, MentionEnd(t, i) + 1)
  ELSE Mentions(t, i + 1)

Range(f) == {f[x] : x \in DOMAIN f}

\* getMentionedPersonas: matched says whether match found anything (the
\* result is null otherwise).
getMentionedPersonas(text, personas) ==
  LET names == {Tail(m) : m \in Range(Mentions(text, 1))}
  IN [matched |-> Mentions(text, 1) # <<>>,
      personas |-> SelectSeq(personas, LAMBDA p : p.name \in names)]

\* getMentionedPersonas(userInput) || config.personas: an empty array is
\* truthy.
respondingPersonas(text, personas) ==
  IF getMentionedPersonas(text, personas).matched
  THEN getMentionedPersonas(text, personas).personas
  ELSE personas

\* String.prototype.toLowerCase
LowerChar(c) ==
  CASE c = "A" -> "a" [] c = "B" -> "b" [] c = "C" -> "c" [] OTHER -> c

ToLowerCase(t) == [k \in 1..Len(t) |-> LowerChar(t[k])]

\* text.lastIndexOf('@'), counting from 1; 0 if there is none.
RECURSIVE LastAt(_)
LastAt(t) ==
  IF t = <<>> THEN 0
  ELSE IF t[Len(t)] = "@" THEN Len(t)
  ELSE LastAt(SubSeq(t, 1, Len(t) - 1))

\* The value of a state that holds null.
NoText == <<"<null>">>

\* The mentionQuery handleInputChange sets for a text.
MentionQueryOf(text) ==
  LET after == SubSeq(text, LastAt(text) + 1, Len(text))
  IN IF LastAt(text) # 0 /\ \A k \in 1..Len(after) : ~IsSpace(after[k])
     THEN ToLowerCase(after) ELSE NoText

\* filteredPersonas
filteredPersonas(query, personas) ==
  IF query = NoText THEN <<>>
  ELSE SelectSeq(personas, LAMBDA p : StartsWith(ToLowerCase(p.name), query))

Persona(name) == [name |-> name]

\* The texts the user types into the topic field.
Topics == {<<>>, <<" ">>, <<"t">>}

\* The persona lists the generation request answers with: names of one
\* and of two words, and a list in which a name repeats.
PersonaLists ==
  {<<Persona(<<"A">>), Persona(<<"B", " ", "C">>)>>,
   <<Persona(<<"A">>), Persona(<<"A">>)>>}

\* The texts the user types into the chat input.
InputTexts ==
  {<<" ">>, <<"h">>, <<"@">>, <<"@", "A">>}

\* The text a persona, the discussion or the summary request answers with.
ReplyText == Lit("reply")

ErrTopic == "Please enter a topic."
ErrGenerate == "Failed to generate personas. Please try again."
ErrNoClient == Lit("Error: AI client not available.")
ErrSummary == Lit("Failed to generate summary. Please try again.")

\* A handleSendMessage call that is not running.
IdleLoop ==
  [pc |-> "idle", msg |-> 0, responding |-> <<>>, idx |-> 0, userText |-> <<>>,
   closure |-> <<>>, outcomes |-> <<>>, quoted |-> <<>>]

\* A request to the AI service and what caused it: the msg-th accepted
\* message (and for a persona request the idx-th responding persona), the
\* msg-th submission, or the msg-th click.
Request(kind, inst, msg, idx) == [kind |-> kind, inst |-> inst, msg |-> msg, idx |-> idx]

CauseOf(r) == [kind |-> r.kind, msg |-> r.msg, idx |-> r.idx]

\* The request r is made.
Issue(r) ==
  /\ inflight' = inflight \cup {r}
  /\ issued' = issued (+) SetToBag({CauseOf(r)})

DashboardShown == sessionConfig = Null /\ ~activeCall

ChatShown == sessionConfig # Null /\ ~activeCall

\* The dashboard is mounted anew, or is unmounted: its state is the initial
\* one.
FreshDashboard ==
  /\ topic' = <<>>
  /\ loadingPersonas' = FALSE
  /\ generatedPersonas' = <<>>
  /\ generatedFor' = <<>>
  /\ checked' = {}
  /\ selectedPersonas' = <<>>
  /\ dashError' = NoError

\* A plausible slip: every chat page starts without messages.
MountChatEmpty(config) ==
  /\ chatMounts' = chatMounts + 1
  /\ messages' =
       (IF apiKey THEN <<>>
        ELSE <<Entry(Lit("System"), Lit("Error: API key is not configured."))>>)
  /\ userInput' = <<>>
  /\ isThinking' = FALSE
  /\ thinkingPersona' = NoText
  /\ mentionQuery' = NoText
  /\ showSummaryModal' = FALSE
  /\ summary' = <<>>
  /\ isSummarizing' = FALSE
  /\ pageSends' = 0
  /\ UNCHANGED loops

\* The chat page is mounted with a session: its state is the initial one and
\* its first effect has run.
MountChat(config) ==
  /\ chatMounts' = chatMounts + 1
  /\ messages' = config.initialMessages \o
       (IF apiKey THEN <<>>
        ELSE <<Entry(Lit("System"), Lit("Error: API key is not configured."))>>)
  /\ userInput' = <<>>
  /\ isThinking' = FALSE
  /\ thinkingPersona' = NoText
  /\ mentionQuery' = NoText
  /\ showSummaryModal' = FALSE
  /\ summary' = <<>>
  /\ isSummarizing' = FALSE
  /\ pageSends' = 0
  /\ UNCHANGED loops

\* The topic field's onChange.
SetTopic(t) ==
  /\ DashboardShown
  /\ t # topic
  /\ topic' = t
  /\ UNCHANGED <<sessionConfig, sessionHistory, dashMounts, loadingPersonas,
                 generatedPersonas, generatedFor, checked, selectedPersonas, dashError,
                 chatVars,
                 inflight, issued, submits, sends, clicks>>

\* handleGeneratePersonas up to its await. Without an API key the
\* constructor of the client throws, or the request is made and fails,
\* depending on the version of the SDK.
handleGeneratePersonas(constructorThrows) ==
  /\ DashboardShown
  /\ ~loadingPersonas
  /\ constructorThrows => ~apiKey
  /\ IF Trim(topic) = <<>>
     THEN /\ dashError' = ErrTopic
          /\ UNCHANGED <<loadingPersonas, generatedPersonas, generatedFor, checked,
                         selectedPersonas,
                         inflight, issued, submits>>
     ELSE /\ generatedPersonas' = <<>>
          /\ generatedFor' = topic
          /\ selectedPersonas' = <<>>
          /\ checked' = {}
          /\ IF constructorThrows
             THEN /\ dashError' = ErrGenerate
                  /\ UNCHANGED <<loadingPersonas, inflight, issued, submits>>
             ELSE /\ submits' = submits + 1
                  /\ loadingPersonas' = TRUE
                  /\ dashError' = NoError
                  /\ Issue(Request("generation", dashMounts, submits + 1, 0))
  /\ UNCHANGED <<sessionConfig, sessionHistory, dashMounts, topic, chatVars, sends, clicks>>

\* The submission goes as far as the request.
MakesRequest(constructorThrows) == Trim(topic) # <<>> /\ ~constructorThrows

\* The generation request r settles, and the rest of
\* handleGeneratePersonas: outcome is the list of personas parsed from the
\* answer, an answer JSON.parse rejects, or an error.
GenerationSettles(r, outcome) ==
  /\ r \in inflight
  /\ r.kind = "generation"
  /\ outcome.kind = "personas" => apiKey
  /\ inflight' = inflight \ {r}
  /\ IF DashboardShown /\ r.inst = dashMounts
     THEN /\ loadingPersonas' = FALSE
          /\ IF outcome.kind = "personas"
             THEN generatedPersonas' = outcome.personas /\ UNCHANGED dashError
             ELSE dashError' = ErrGenerate /\ UNCHANGED generatedPersonas
     ELSE UNCHANGED <<loadingPersonas, generatedPersonas, dashError>>
  /\ UNCHANGED <<sessionConfig, sessionHistory, dashMounts, topic, generatedFor, checked,
                 selectedPersonas, chatVars, issued, submits, sends, clicks>>

\* handlePersonaSelection, for the checkbox of the j-th generated persona.
handlePersonaSelection(j) ==
  /\ DashboardShown
  /\ j \in 1..Len(generatedPersonas)
  /\ IF j \notin checked
     THEN /\ checked' = checked \cup {j}
          /\ selectedPersonas' = Append(selectedPersonas, generatedPersonas[j])
     ELSE /\ checked' = checked \ {j}
          /\ selectedPersonas' =
               SelectSeq(selectedPersonas, LAMBDA p : p.name # generatedPersonas[j].name)
  /\ UNCHANGED <<sessionConfig, sessionHistory, dashMounts, topic, loadingPersonas,
                 generatedPersonas, generatedFor, dashError, chatVars, inflight, issued,
                 submits,
                 sends, clicks>>

\* App.handleStartBrainstorming: the chat page replaces the dashboard.
handleStartBrainstorming(t, personas, initialMessages) ==
  /\ chatMounts < MaxPages
  /\ sessionConfig' = [topic |-> t, personas |-> personas,
                       initialMessages |-> initialMessages]
  /\ MountChat([topic |-> t, personas |-> personas, initialMessages |-> initialMessages])
  /\ FreshDashboard
  /\ UNCHANGED <<sessionHistory, dashMounts, inflight, issued, submits, sends, clicks>>

\* The Start Brainstorming button.
StartBrainstorming ==
  /\ DashboardShown
  /\ Len(generatedPersonas) > 0
  /\ selectedPersonas # <<>>
  /\ handleStartBrainstorming(topic, selectedPersonas, <<>>)

\* handleReopenSession, for the h-th item of the history.
handleReopenSession(h) ==
  /\ DashboardShown
  /\ h \in 1..Len(sessionHistory)
  /\ handleStartBrainstorming(sessionHistory[h].topic, sessionHistory[h].personas,
                              sessionHistory[h].messages)

\* The chat page is unmounted: its state is gone. The handleSendMessage
\* call it started, and its requests, go on.
UnmountChat ==
  /\ messages' = <<>>
  /\ userInput' = <<>>
  /\ isThinking' = FALSE
  /\ thinkingPersona' = NoText
  /\ mentionQuery' = NoText
  /\ showSummaryModal' = FALSE
  /\ summary' = <<>>
  /\ isSummarizing' = FALSE
  /\ pageSends' = 0
  /\ UNCHANGED <<chatMounts, loops>>

\* The i-th mount of the chat page is the one shown.
Mounted(i) == ChatShown /\ i = chatMounts

\* A plausible slip: a persona whose request failed is asked again.
AfterResponseRetry(idx, outcome) == IF outcome = "error" THEN idx ELSE idx + 1

\* The for loop of handleSendMessage goes on to the next persona, whatever
\* became of the request.
AfterResponse(idx, outcome) == idx + 1

\* A plausible slip: a failed request ends the turn.
LoopAfterAbort(l, outcome) ==
  LET next == AfterResponse(l.idx, outcome)
      l1 == [l EXCEPT !.outcomes = Append(@, outcome)]
  IN IF outcome = "error" THEN IdleLoop
     ELSE IF next <= Len(l.responding) THEN [l1 EXCEPT !.idx = next, !.pc = "delay"]
     ELSE IF Len(l.responding) > 1 THEN [l1 EXCEPT !.idx = next, !.pc = "discDelay"]
     ELSE IdleLoop

\* A plausible slip: the discussion follows whenever anybody responded.
LoopAfterAnyCount(l, outcome) ==
  LET next == AfterResponse(l.idx, outcome)
      l1 == [l EXCEPT !.outcomes = Append(@, outcome)]
  IN IF next <= Len(l.responding) THEN [l1 EXCEPT !.idx = next, !.pc = "delay"]
     ELSE IF Len(l.responding) > 0 THEN [l1 EXCEPT !.idx = next, !.pc = "discDelay"]
     ELSE IdleLoop

\* handleSendMessage after generatePersonaResponse returned with outcome:
\* the next persona's turn, the discussion, or the end.
LoopAfter(l, outcome) ==
  LET next == AfterResponse(l.idx, outcome)
      l1 == [l EXCEPT !.outcomes = Append(@, outcome)]
  IN IF next <= Len(l.responding) THEN [l1 EXCEPT !.idx = next, !.pc = "delay"]
     ELSE IF Len(l.responding) > 1 THEN [l1 EXCEPT !.idx = next, !.pc = "discDelay"]
     ELSE IdleLoop

\* The thinkingPersona handleSendMessage has set when it is at l.
ThinkingOf(l) ==
  IF l.pc \in {"delay", "request"} THEN l.responding[l.idx].name
  ELSE IF l.pc \in {"discDelay", "discRequest"} THEN Lit("Persona Discussion")
  ELSE NoText

\* A plausible slip: a failed request leaves no message, as it does in
\* generatePersonaDiscussion.
ResponseMessagesSilent(name, outcome) ==
  IF outcome = "text" THEN <<Entry(name, ReplyText)>> ELSE <<>>

\* The messages generatePersonaResponse adds for a persona.
ResponseMessages(name, outcome) ==
  IF outcome = "text" THEN <<Entry(name, ReplyText)>>
  ELSE IF outcome = "error"
  THEN <<Entry(Lit("System"), Lit("An error occurred with ") \o name \o Lit("."))>>
  ELSE <<>>

\* messages.slice(-n)
LastN(t, n) == SubSeq(t, Max(1, Len(t) - n + 1), Len(t))

\* The chat input's onChange.
handleInputChange(text) ==
  /\ ChatShown
  /\ ~isThinking
  /\ text # userInput
  /\ mentionQuery' = MentionQueryOf(text)
  /\ userInput' = text
  /\ UNCHANGED <<sessionConfig, sessionHistory, dashVars, chatMounts, pageSends,
                 messages,
                 isThinking, thinkingPersona, showSummaryModal, summary, isSummarizing,
                 loops, inflight, issued, submits, sends, clicks>>

\* handleMentionSelect, for a persona of the suggestion list.
handleMentionSelect(name) ==
  /\ ChatShown
  /\ \E k \in 1..Len(filteredPersonas(mentionQuery, sessionConfig.personas)) :
       filteredPersonas(mentionQuery, sessionConfig.personas)[k].name = name
  /\ userInput' = SubSeq(userInput, 1, LastAt(userInput) - 1) \o <<"@">> \o name \o <<" ">>
  /\ mentionQuery' = NoText
  /\ UNCHANGED <<sessionConfig, sessionHistory, dashVars, chatMounts, pageSends,
                 messages,
                 isThinking, thinkingPersona, showSummaryModal, summary, isSummarizing,
                 loops, inflight, issued, submits, sends, clicks>>

\* handleSendMessage up to its first await: the message is accepted and
\* the timer before the first persona's turn is started.
handleSendMessage ==
  /\ ChatShown
  /\ Trim(userInput) # <<>>
  /\ ~isThinking
  /\ pageSends' = pageSends + 1
  /\ sends' = sends + 1
  /\ messages' = Append(messages, Entry(Lit("user"), userInput))
  /\ userInput' = <<>>
  /\ LET responding == respondingPersonas(userInput, sessionConfig.personas)
         l == [pc |-> "delay", msg |-> sends + 1, responding |-> responding, idx |-> 1,
               userText |-> userInput, closure |-> messages, outcomes |-> <<>>,
               quoted |-> <<>>]
     IN IF responding = <<>>
        THEN /\ isThinking' = FALSE
             /\ thinkingPersona' = NoText
             /\ UNCHANGED loops
        ELSE /\ isThinking' = TRUE
             /\ thinkingPersona' = ThinkingOf(l)
             /\ loops' = [loops EXCEPT ![chatMounts] = l]
  /\ UNCHANGED <<sessionConfig, sessionHistory, dashVars, chatMounts, mentionQuery,
                 showSummaryModal, summary, isSummarizing, inflight, issued, submits,
                 clicks>>

\* What handleSendMessage of mount i does to the page when it comes to l
\* having added msgs: nothing if the page is no longer mounted.
PageAt(i, l, msgs) ==
  IF Mounted(i)
  THEN /\ messages' = messages \o msgs
       /\ isThinking' = (l.pc # "idle")
       /\ thinkingPersona' = ThinkingOf(l)
  ELSE UNCHANGED <<messages, isThinking, thinkingPersona>>

\* The 1000 ms timer before a persona's turn fires for mount i:
\* generatePersonaResponse up to its await, or all of it when the persona
\* has no chat.
ResponseDelayElapses(i) ==
  /\ loops[i].pc = "delay"
  /\ IF apiKey
     THEN /\ loops' = [loops EXCEPT ![i].pc = "request"]
          /\ Issue(Request("persona", i, loops[i].msg, loops[i].idx))
          /\ UNCHANGED <<messages, isThinking, thinkingPersona>>
     ELSE /\ loops' = [loops EXCEPT ![i] = LoopAfter(loops[i], "nochat")]
          /\ PageAt(i, LoopAfter(loops[i], "nochat"), <<>>)
          /\ UNCHANGED <<inflight, issued>>
  /\ UNCHANGED <<sessionConfig, sessionHistory, dashVars, chatMounts, pageSends,
                 userInput,
                 mentionQuery, showSummaryModal, summary, isSummarizing, submits, sends,
                 clicks>>

\* The sendMessage request of mount i settles: the rest of
\* generatePersonaResponse, and handleSendMessage up to its next await.
ResponseSettles(i, outcome) ==
  /\ loops[i].pc = "request"
  /\ Request("persona", i, loops[i].msg, loops[i].idx) \in inflight
  /\ inflight' = inflight \ {Request("persona", i, loops[i].msg, loops[i].idx)}
  /\ loops' = [loops EXCEPT ![i] = LoopAfter(loops[i], outcome)]
  /\ PageAt(i, LoopAfter(loops[i], outcome),
            ResponseMessages(loops[i].responding[loops[i].idx].name, outcome))
  /\ UNCHANGED <<sessionConfig, sessionHistory, dashVars, chatMounts, pageSends,
                 userInput,
                 mentionQuery, showSummaryModal, summary, isSummarizing, issued, submits,
                 sends, clicks>>

\* The 1000 ms timer before the discussion fires for mount i:
\* generatePersonaDiscussion up to its await, or all of it without a client.
DiscussionDelayElapses(i) ==
  /\ loops[i].pc = "discDelay"
  /\ IF apiKey
     THEN /\ loops' = [loops EXCEPT ![i].pc = "discRequest",
                                    ![i].quoted = LastN(loops[i].closure,
                                                        Len(loops[i].responding))]
          /\ Issue(Request("discussion", i, loops[i].msg, 0))
          /\ UNCHANGED <<messages, isThinking, thinkingPersona>>
     ELSE /\ loops' = [loops EXCEPT ![i] = IdleLoop]
          /\ PageAt(i, IdleLoop, <<>>)
          /\ UNCHANGED <<inflight, issued>>
  /\ UNCHANGED <<sessionConfig, sessionHistory, dashVars, chatMounts, pageSends,
                 userInput,
                 mentionQuery, showSummaryModal, summary, isSummarizing, submits, sends,
                 clicks>>

\* The discussion request of mount i settles: the rest of
\* generatePersonaDiscussion and of handleSendMessage.
DiscussionSettles(i, outcome) ==
  /\ loops[i].pc = "discRequest"
  /\ Request("discussion", i, loops[i].msg, 0) \in inflight
  /\ inflight' = inflight \ {Request("discussion", i, loops[i].msg, 0)}
  /\ loops' = [loops EXCEPT ![i] = IdleLoop]
  /\ PageAt(i, IdleLoop,
            IF outcome = "text" THEN <<Entry(Lit("Persona Discussion"), ReplyText)>>
            ELSE <<>>)
  /\ UNCHANGED <<sessionConfig, sessionHistory, dashVars, chatMounts, pageSends,
                 userInput,
                 mentionQuery, showSummaryModal, summary, isSummarizing, issued, submits,
                 sends, clicks>>

\* The End Session button: handleTriggerSummary up to its await, or all of
\* it without a client.
handleTriggerSummary ==
  /\ ChatShown
  /\ clicks' = clicks + 1
  /\ showSummaryModal' = TRUE
  /\ IF apiKey
     THEN /\ isSummarizing' = TRUE
          /\ Issue(Request("summary", chatMounts, clicks + 1, 0))
          /\ UNCHANGED summary
     ELSE /\ summary' = ErrNoClient
          /\ isSummarizing' = FALSE
          /\ UNCHANGED <<inflight, issued>>
  /\ UNCHANGED <<sessionConfig, sessionHistory, dashVars, chatMounts, pageSends,
                 messages,
                 userInput, isThinking, thinkingPersona, mentionQuery, loops, submits,
                 sends>>

\* The summary request r settles: the rest of handleTriggerSummary. The
\* outcome "undefined" is an answer without text.
SummarySettles(r, outcome) ==
  /\ r \in inflight
  /\ r.kind = "summary"
  /\ inflight' = inflight \ {r}
  /\ IF Mounted(r.inst)
     THEN /\ summary' = (IF outcome = "text" THEN ReplyText
                         ELSE IF outcome = "error" THEN ErrSummary ELSE NoText)
          /\ isSummarizing' = FALSE
     ELSE UNCHANGED <<summary, isSummarizing>>
  /\ UNCHANGED <<sessionConfig, sessionHistory, dashVars, chatMounts, pageSends,
                 messages,
                 userInput, isThinking, thinkingPersona, mentionQuery, showSummaryModal,
                 loops, issued, submits, sends, clicks>>

\* A plausible slip: the item of the same topic stays in the history.
handleEndSessionKeepAll(completedSession) ==
  /\ sessionHistory' =
       Append(sessionHistory,
              [id |-> NumberToString(now), topic |-> completedSession.topic,
               personas |-> completedSession.personas,
               messages |-> completedSession.messages])
  /\ sessionConfig' = Null
  /\ dashMounts' = dashMounts + 1
  /\ FreshDashboard
  /\ UnmountChat

\* App.handleEndSession: the session replaces the history's item of the
\* same topic, and the dashboard replaces the chat page.
handleEndSession(completedSession) ==
  /\ sessionHistory' =
       Append(SelectSeq(sessionHistory, LAMBDA h : h.topic # completedSession.topic),
              [id |-> NumberToString(now), topic |-> completedSession.topic,
               personas |-> completedSession.personas,
               messages |-> completedSession.messages])
  /\ sessionConfig' = Null
  /\ dashMounts' = dashMounts + 1
  /\ FreshDashboard
  /\ UnmountChat

\* The Finish & Close button of the summary modal.
handleCloseSummaryAndEnd ==
  /\ ChatShown
  /\ showSummaryModal
  /\ handleEndSession([topic |-> sessionConfig.topic, personas |-> sessionConfig.personas,
                       messages |-> messages])
  /\ UNCHANGED <<inflight, issued, submits, sends, clicks>>

\* The dashboard as App first shows it to a user who has logged in.
InitUi ==
  /\ sessionConfig = Null
  /\ sessionHistory = <<>>
  /\ dashMounts = 1
  /\ topic = <<>>
  /\ loadingPersonas = FALSE
  /\ generatedPersonas = <<>>
  /\ generatedFor = <<>>
  /\ checked = {}
  /\ selectedPersonas = <<>>
  /\ dashError = NoError
  /\ chatMounts = 0
  /\ messages = <<>>
  /\ userInput = <<>>
  /\ isThinking = FALSE
  /\ thinkingPersona = NoText
  /\ mentionQuery = NoText
  /\ showSummaryModal = FALSE
  /\ summary = <<>>
  /\ isSummarizing = FALSE
  /\ loops = [i \in 1..MaxPages |-> IdleLoop]
  /\ inflight = {}
  /\ issued = EmptyBag
  /\ submits = 0
  /\ sends = 0
  /\ pageSends = 0
  /\ clicks = 0

\* The chat page as App first shows it for a new session: the dashboard has
\* generated personas for the topic 't' and the user has started a session
\* with two of them.
StartedSession ==
  /\ sessionConfig = [topic |-> <<"t">>,
                      personas |-> <<Persona(<<"A">>), Persona(<<"B", " ", "C">>)>>,
                      initialMessages |-> <<>>]
  /\ sessionHistory = <<>>
  /\ dashMounts = 1
  /\ topic = <<>>
  /\ loadingPersonas = FALSE
  /\ generatedPersonas = <<>>
  /\ generatedFor = <<>>
  /\ checked = {}
  /\ selectedPersonas = <<>>
  /\ dashError = NoError
  /\ chatMounts = 1
  /\ messages = <<>>
  /\ userInput = <<>>
  /\ isThinking = FALSE
  /\ thinkingPersona = NoText
  /\ mentionQuery = NoText
  /\ showSummaryModal = FALSE
  /\ summary = <<>>
  /\ isSummarizing = FALSE
  /\ loops = [i \in 1..MaxPages |-> IdleLoop]
  /\ inflight = {}
  /\ issued = SetToBag({[kind |-> "generation", msg |-> 1, idx |-> 0]})
  /\ submits = 1
  /\ sends = 0
  /\ pageSends = 0
  /\ clicks = 0

\* The persona names of the lists the generation request answers with.
PersonaNames == UNION {{l[k].name : k \in 1..Len(l)} : l \in PersonaLists}

RequestOutcomes == {"text", "empty", "error"}

GenerationOutcomes ==
  {[kind |-> "personas", personas |-> l] : l \in PersonaLists}
  \cup {[kind |-> "unparsable", personas |-> <<>>], [kind |-> "error", personas |-> <<>>]}

NextUi ==
  \/ \E t \in Topics : SetTopic(t) /\ UNCHANGED nonUiVars
  \/ \E constructorThrows \in BOOLEAN :
       /\ MakesRequest(constructorThrows) => submits < MaxSubmits
       /\ handleGeneratePersonas(constructorThrows) /\ UNCHANGED nonUiVars
  \/ \E r \in inflight, outcome \in GenerationOutcomes :
       GenerationSettles(r, outcome) /\ UNCHANGED nonUiVars
  \/ \E j \in 1..2 : handlePersonaSelection(j) /\ UNCHANGED nonUiVars
  \/ chatMounts < MaxChatMounts /\ StartBrainstorming /\ UNCHANGED nonUiVars
  \/ \E h \in 1..MaxPages :
       chatMounts < MaxChatMounts /\ handleReopenSession(h) /\ UNCHANGED nonUiVars
  \/ \E text \in InputTexts : handleInputChange(text) /\ UNCHANGED nonUiVars
  \/ \E name \in PersonaNames : handleMentionSelect(name) /\ UNCHANGED nonUiVars
  \/ sends < MaxSent /\ handleSendMessage /\ UNCHANGED nonUiVars
  \/ \E i \in 1..MaxPages : ResponseDelayElapses(i) /\ UNCHANGED nonUiVars
  \/ \E i \in 1..MaxPages, outcome \in RequestOutcomes :
       ResponseSettles(i, outcome) /\ UNCHANGED nonUiVars
  \/ \E i \in 1..MaxPages : DiscussionDelayElapses(i) /\ UNCHANGED nonUiVars
  \/ \E i \in 1..MaxPages, outcome \in RequestOutcomes :
       DiscussionSettles(i, outcome) /\ UNCHANGED nonUiVars
  \/ clicks < MaxClicks /\ handleTriggerSummary /\ UNCHANGED nonUiVars
  \/ \E r \in inflight, outcome \in {"text", "undefined", "error"} :
       SummarySettles(r, outcome) /\ UNCHANGED nonUiVars
  \/ handleCloseSummaryAndEnd /\ UNCHANGED nonUiVars

\* ------------------------------------------------------------------------
\* The specifications.
\* ------------------------------------------------------------------------

vars == <<authVars, hashVars, callVars, uiVars, blobVars>>

\* A user has signed up and is thereby logged in: App renders the pages
\* behind the login page.
SignedIn ==
  LET newUser == [id |-> NumberToString(0), email |-> "a@x",
                  hashedPassword |-> hashPassword(<<97>>)]
  IN /\ btoaAvailable = TRUE
     /\ storage = <<<<newUser>>>>
     /\ users = <<newUser>>
     /\ now = 0
     /\ pending = <<>>
     /\ user = userToReturn(newUser)
     /\ loading = FALSE
     /\ error = NoError
     /\ lastResult = [op |-> "signUp", email |-> "a@x", password |-> <<97>>,
                      ok |-> TRUE, value |-> userToReturn(newUser), rethrown |-> FALSE]
     /\ signedUp = {[id |-> newUser.id, email |-> "a@x", password |-> <<97>>]}
     /\ calls = 1

\* process.env.API_KEY is set by the build, or is not.
InitCall == apiKey \in BOOLEAN /\ NoCallYet

IdleCall == apiKey = TRUE /\ NoCallYet

InitSpecAuth == InitAuth /\ IdleHash /\ IdleCall /\ InitUi /\ IdleBlob

InitSpecHash == InitAuth /\ InitHash /\ IdleCall /\ InitUi /\ IdleBlob

InitSpecCall == SignedIn /\ IdleHash /\ InitCall /\ InitUi /\ IdleBlob

InitSpec == SignedIn /\ IdleHash /\ InitCall /\ InitUi /\ IdleBlob

InitSpecBlob == SignedIn /\ IdleHash /\ IdleCall /\ InitUi /\ InitBlob

NextHash ==
  \/ HashStore /\ UNCHANGED nonHashVars
  \/ HashCompare /\ UNCHANGED nonHashVars

\* The call page, its connection and the transcript: the server sends
\* messages without audio.
NextCall ==
  \/ StartCall /\ UNCHANGED nonCallVars
  \/ \E i \in 1..MaxMounts : GetUserMediaResolves(i) /\ UNCHANGED nonCallVars
  \/ \E i \in 1..MaxMounts : GetUserMediaRejects(i) /\ UNCHANGED nonCallVars
  \/ \E i \in 1..MaxMounts : ConnectResolves(i) /\ UNCHANGED nonCallVars
  \/ \E i \in 1..MaxMounts : ConnectRejects(i) /\ UNCHANGED nonCallVars
  \/ \E outF \in Fragments \cup {<<>>}, inF \in Fragments \cup {<<>>},
        turnComplete \in BOOLEAN, eagerIn \in BOOLEAN, eagerOut \in BOOLEAN :
       OnMessage(outF, inF, turnComplete, 0, FALSE, eagerIn, eagerOut)
       /\ UNCHANGED nonCallVars
  \/ OnError /\ UNCHANGED nonCallVars
  \/ \E i \in 1..MaxMounts : OnClose(i) /\ UNCHANGED nonCallVars
  \/ ReactRender /\ UNCHANGED nonCallVars
  \/ EndCall /\ UNCHANGED nonCallVars

\* The audio of a call: the server sends messages without transcriptions.
NextAudio ==
  \/ StartCall /\ UNCHANGED nonCallVars
  \/ \E i \in 1..MaxMounts : GetUserMediaResolves(i) /\ UNCHANGED nonCallVars
  \/ \E i \in 1..MaxMounts : ConnectResolves(i) /\ UNCHANGED nonCallVars
  \/ \E dur \in Durations \cup {0}, interrupted \in BOOLEAN :
       OnMessage(<<>>, <<>>, FALSE, dur, interrupted, TRUE, TRUE)
       /\ UNCHANGED nonCallVars
  \/ ResumeDecode /\ UNCHANGED nonCallVars
  \/ \E k \in 1..MaxChunks : SourceEnded(k) /\ UNCHANGED nonCallVars
  \/ AudioClockTick /\ UNCHANGED nonCallVars
  \/ ToggleMute /\ UNCHANGED nonCallVars
  \/ AudioProcess /\ UNCHANGED nonCallVars
  \/ EndCall /\ UNCHANGED nonCallVars

\* The steps of the handleSendMessage call of mount i: a timer fires, or a
\* request settles.
LoopStepOf(i) ==
  \/ ResponseDelayElapses(i) /\ UNCHANGED nonUiVars
  \/ \E outcome \in RequestOutcomes : ResponseSettles(i, outcome) /\ UNCHANGED nonUiVars
  \/ DiscussionDelayElapses(i) /\ UNCHANGED nonUiVars
  \/ \E outcome \in RequestOutcomes : DiscussionSettles(i, outcome) /\ UNCHANGED nonUiVars

LoopStep == \E i \in 1..MaxPages : LoopStepOf(i)

\* The chat page of a session, the end of the session and its reopening:
\* every mount of the page accepts up to MaxSent messages.
NextChat ==
  \/ \E h \in 1..MaxPages :
       chatMounts < MaxChatMounts /\ handleReopenSession(h) /\ UNCHANGED nonUiVars
  \/ \E text \in InputTexts : handleInputChange(text) /\ UNCHANGED nonUiVars
  \/ \E name \in PersonaNames : handleMentionSelect(name) /\ UNCHANGED nonUiVars
  \/ pageSends < MaxSent /\ handleSendMessage /\ UNCHANGED nonUiVars
  \/ LoopStep
  \/ clicks < MaxClicks /\ handleTriggerSummary /\ UNCHANGED nonUiVars
  \/ \E r \in inflight, outcome \in {"text", "undefined", "error"} :
       SummarySettles(r, outcome) /\ UNCHANGED nonUiVars
  \/ handleCloseSummaryAndEnd /\ UNCHANGED nonUiVars

InitSpecChat == SignedIn /\ IdleHash /\ IdleCall /\ StartedSession /\ IdleBlob

\* The topics of the sessions of the session history.
HistoryTopics == {<<"t">>, <<"u">>}

\* The session history: sessions are started from generated personas or
\* reopened, and are ended; one of them takes a message. Every generation
\* request answers with the same personas, and every other request with a
\* text.
NextHistory ==
  \/ \E t \in HistoryTopics : SetTopic(t) /\ UNCHANGED nonUiVars
  \/ submits < MaxGenerations /\ handleGeneratePersonas(FALSE) /\ UNCHANGED nonUiVars
  \/ \E r \in inflight :
       /\ GenerationSettles(r, [kind |-> "personas",
                                personas |-> <<Persona(<<"A">>), Persona(<<"B", " ", "C">>)>>])
       /\ UNCHANGED nonUiVars
  \/ \E j \in 1..2 : handlePersonaSelection(j) /\ UNCHANGED nonUiVars
  \/ StartBrainstorming /\ UNCHANGED nonUiVars
  \/ \E h \in 1..MaxPages : handleReopenSession(h) /\ UNCHANGED nonUiVars
  \/ handleInputChange(<<"h">>) /\ UNCHANGED nonUiVars
  \/ sends < MaxSent /\ handleSendMessage /\ UNCHANGED nonUiVars
  \/ \E i \in 1..MaxPages : ResponseDelayElapses(i) /\ UNCHANGED nonUiVars
  \/ \E i \in 1..MaxPages : ResponseSettles(i, "text") /\ UNCHANGED nonUiVars
  \/ \E i \in 1..MaxPages : DiscussionDelayElapses(i) /\ UNCHANGED nonUiVars
  \/ \E i \in 1..MaxPages : DiscussionSettles(i, "text") /\ UNCHANGED nonUiVars
  \/ clicks < MaxSessions /\ handleTriggerSummary /\ UNCHANGED nonUiVars
  \/ \E r \in inflight : SummarySettles(r, "text") /\ UNCHANGED nonUiVars
  \/ handleCloseSummaryAndEnd /\ UNCHANGED nonUiVars

NextBlob == CreateBlob /\ UNCHANGED nonBlobVars

SpecAuth == InitSpecAuth /\ [][NextAuth]_vars

SpecBlob == InitSpecBlob /\ [][NextBlob]_vars

SpecHash == InitSpecHash /\ [][NextHash]_vars

SpecCall == InitSpecCall /\ [][NextCall]_vars

SpecAudio == InitSpecCall /\ [][NextAudio]_vars

Spec == InitSpec /\ [][NextUi]_vars

\* App, the dashboard and the chat page over several sessions.
SpecHistory == InitSpec /\ [][NextHistory]_vars

\* Every timer of handleSendMessage fires and every request settles: a
\* step of a call that is not finished is enabled until it is taken.
SpecChat ==
  /\ InitSpecChat
  /\ [][NextChat]_vars
  /\ \A i \in 1..MaxPages : WF_vars(LoopStepOf(i))

\* ------------------------------------------------------------------------
\* Properties of authService and the AuthContext.
\* ------------------------------------------------------------------------

\* A step in which the timer of the oldest pending call of kind op fires.
TimerFires(op) ==
  /\ pending # <<>>
  /\ Head(pending).op = op
  /\ pending' = Tail(pending)

\* No two elements of the list have the same email.
DistinctEmails(list) ==
  \A i, j \in 1..Len(list) : list[i].email = list[j].email => i = j

\* C1: login resolves with the stored user's id and email exactly when the
\* store holds a user with the given email whose stored encoded password is
\* the encoding of the given password; otherwise it rejects with
\* 'Invalid email or password.' and the store is left as it was.
C1_LoginStep ==
  TimerFires("login") =>
    LET call == Head(pending)
        matches == {i \in 1..Len(loadUsers) :
                      /\ loadUsers[i].email = call.email
                      /\ loadUsers[i].hashedPassword = hashPassword(call.password)}
    IN IF matches # {}
       THEN /\ lastResult'.ok
            /\ \E i \in matches :
                 lastResult'.value = [id |-> loadUsers[i].id, email |-> loadUsers[i].email]
       ELSE /\ ~lastResult'.ok
            /\ lastResult'.value = [message |-> ErrInvalid]
            /\ storage' = storage

C1_Login == [][C1_LoginStep]_vars

\* A login resolved for a stored user, and the AuthContext holds that user.
C1_Witness ==
  /\ lastResult.op = "login"
  /\ lastResult.ok
  /\ \E i \in 1..Len(loadUsers) : lastResult.value.id = loadUsers[i].id
  /\ user = lastResult.value

\* C2: the user store never holds two users with the same email, and a signUp
\* for an email that is in the store rejects with 'An account with this email
\* already exists.' and adds nothing.
C2_SignUpStep ==
  (TimerFires("signUp") /\ \E i \in 1..Len(loadUsers) :
                              loadUsers[i].email = Head(pending).email) =>
    /\ ~lastResult'.ok
    /\ lastResult'.value = [message |-> ErrExists]
    /\ storage' = storage
    /\ users' = loadUsers

C2_NoDuplicateEmail ==
  /\ [](DistinctEmails(users) /\ DistinctEmails(loadUsers))
  /\ [][C2_SignUpStep]_vars

\* Two users are stored, and a signUp for a stored email was rejected.
C2_Witness ==
  /\ Len(loadUsers) = 2
  /\ lastResult.op = "signUp"
  /\ ~lastResult.ok

\* C3: after signUp(e, p) has resolved, a later login(e, p) resolves with the
\* id and email that signUp returned.
C3_LoginAfterSignUp ==
  lastResult.op = "login" =>
    \A s \in signedUp :
      (s.email = lastResult.email /\ s.password = lastResult.password) =>
        /\ lastResult.ok
        /\ lastResult.value = [id |-> s.id, email |-> s.email]

\* C4: hashPassword maps distinct passwords to distinct stored strings, on
\* the btoa path and on the fallback path, so login accepts the tried
\* password exactly when it is the password signUp was given.
C4_HashInjective ==
  hashPc = "compared" => (accepted <=> pwGiven = pwTried)

\* login rejected a password that btoa encodes, tried against the stored
\* form of a different password that btoa refuses.
C4_Witness ==
  /\ hashPc = "compared"
  /\ btoaAvailable
  /\ BtoaThrows(pwGiven \o Salt)
  /\ ~BtoaThrows(pwTried \o Salt)
  /\ pwTried # <<>>
  /\ ~accepted

\* C5: the user that signUp and login resolve with, and the user the
\* AuthContext holds, consists of id and email only.
C5_NoHashedPassword ==
  /\ user # Null => DOMAIN user = {"id", "email"}
  /\ (lastResult.op # "none" /\ lastResult.ok) =>
       DOMAIN lastResult.value = {"id", "email"}

\* A call resolved and the AuthContext holds the user it resolved with.
C5_Witness ==
  /\ lastResult.op # "none"
  /\ lastResult.ok
  /\ user = lastResult.value

\* C6: when an attempt fails, error becomes the failure's message, user is
\* left as it was, loading becomes false and the error is rethrown; when it
\* succeeds, user is set and loading becomes false; an attempt starts by
\* clearing error.
C6_AttemptStep ==
  /\ (TimerFires("login") \/ TimerFires("signUp")) =>
       IF lastResult'.ok
       THEN /\ user' = lastResult'.value
            /\ loading' = FALSE
       ELSE /\ error' = lastResult'.value.message
            /\ user' = user
            /\ loading' = FALSE
            /\ lastResult'.rethrown
  /\ Len(pending') = Len(pending) + 1 => error' = NoError

C6_Attempt == [][C6_AttemptStep]_vars

\* An attempt failed while somebody was logged in: the error is shown, the
\* user is still logged in and loading is false.
C6_Witness ==
  /\ lastResult.op # "none"
  /\ ~lastResult.ok
  /\ error = lastResult.value.message
  /\ user # Null
  /\ ~loading


\* ------------------------------------------------------------------------
\* Properties of the call page.
\* ------------------------------------------------------------------------

\* C9: at most one live connection is open at any time; a mount of the
\* call page calls connect at most once; and no connection of a page that
\* has been left is open.
C9_OneConnection ==
  /\ Cardinality({i \in 1..MaxMounts : callInst[i].conn = "open"}) <= 1
  /\ \A i \in 1..MaxMounts : callInst[i].connects <= 1
  /\ \A i \in 1..MaxMounts : callInst[i].life = "left" => callInst[i].conn # "open"

\* The first page was left and its connection, which it had asked for, is
\* closed, while the connection of the second page is open.
C9_Witness ==
  /\ callInst[1].life = "left"
  /\ callInst[1].connects = 1
  /\ callInst[1].conn = "closed"
  /\ callInst[2].conn = "open"

\* The entries of a transcript that are not System entries.
TurnsOf(t) == SelectSeq(t, LAMBDA e : e.sender # Lit("System"))

\* C10: once React has rendered the call page, the User and persona entries
\* of the transcript are, in order, the entries of the completed turns, each
\* with the trimmed transcription accumulated when turnComplete arrived.
C10_TurnTranscript ==
  (activeCall /\ transcriptQueue = <<>>) => TurnsOf(transcript) = expected


\* ------------------------------------------------------------------------
\* Properties of the dashboard and the chat page.
\* ------------------------------------------------------------------------

\* C7: no request to the AI service is made twice for the same cause: an
\* accepted message causes at most one sendMessage request for each
\* responding persona and at most one discussion request, a Generate
\* Personas submission at most one generation request, and an End Session
\* click at most one summary request.
C7_NoRetry ==
  \A c \in BagToSet(issued) : CopiesIn(c, issued) <= 1

\* A persona's request failed, the next persona answered, and the
\* discussion has been requested: four requests so far, the generation
\* request among them.
C7_Witness ==
  \E i \in 1..MaxPages :
    /\ loops[i].pc = "discRequest"
    /\ loops[i].outcomes = <<"error", "text">>
    /\ BagCardinality(issued) >= 4

\* The messages the personas' answers so far must have added, in the order
\* of the responding list.
RECURSIVE AnswersOf(_, _)
AnswersOf(responding, outcomes) ==
  IF outcomes = <<>> THEN <<>>
  ELSE (CASE Head(outcomes) = "text" -> <<Entry(Head(responding).name, ReplyText)>>
          [] Head(outcomes) = "error" ->
               <<Entry(Lit("System"),
                       <<"An error occurred with ">> \o Head(responding).name \o <<".">>)>>
          [] OTHER -> <<>>)
       \o AnswersOf(Tail(responding), Tail(outcomes))

\* C8: a chat page has at most one persona request in flight; the persona
\* asked is the one that follows, in the responding list, those whose turn
\* is over; and while a message is being answered the message list is the
\* list as it was, the user's message, and the answers or error messages of
\* the personas whose turn is over, in that order.
C8_OneAtATime ==
  \A i \in 1..MaxPages :
    LET l == loops[i]
        asked == {r \in inflight : r.kind = "persona" /\ r.inst = i}
    IN /\ Cardinality(asked) <= 1
       /\ \A r \in asked :
            l.pc = "request" /\ r.msg = l.msg /\ r.idx = Len(l.outcomes) + 1
       /\ (Mounted(i) /\ l.pc # "idle") =>
            messages = l.closure \o <<Entry(Lit("user"), l.userText)>>
                       \o AnswersOf(l.responding, l.outcomes)

\* The second persona is being asked after the first one's request failed.
C8_Witness ==
  \E i \in 1..MaxPages :
    /\ Mounted(i)
    /\ loops[i].pc = "request"
    /\ loops[i].idx = 2
    /\ loops[i].outcomes = <<"error">>
    /\ Request("persona", i, loops[i].msg, 2) \in inflight

\* How often the piece c occurs in the texts of the entries.
RECURSIVE Occurrences(_, _)
Occurrences(entries, c) ==
  IF entries = <<>> THEN 0
  ELSE Len(SelectSeq(Head(entries).text, LAMBDA x : x = c))
       + Occurrences(Tail(entries), c)

\* C11: once React has rendered the call page, every transcription fragment
\* of a completed turn is in the User and persona entries of the transcript
\* exactly once: the entries hold as many "a" as the completed turns
\* received.
C11_FragmentsOnce ==
  (activeCall /\ transcriptQueue = <<>>) =>
    Occurrences(TurnsOf(transcript), "a") = Occurrences(expected, "a")

\* ------------------------------------------------------------------------
\* Properties of the audio of a call.
\* ------------------------------------------------------------------------

\* C12: as long as the server has signalled no interruption, every chunk is
\* started no earlier than the output time at which it is started and no
\* earlier than the scheduled end of the chunk received before it, in
\* arrival order, and when no handler waits at the decode await
\* nextStartTime is the scheduled end of the last chunk.
C12_NoOverlap ==
  ~received.interrupted =>
    /\ \A k \in 1..Len(sources) :
         /\ sources[k].start = sources[k].begins
         /\ k > 1 => sources[k].start >= sources[k - 1].start + sources[k - 1].dur
    /\ (decodeQueue = <<>> /\ sources # <<>>) =>
         nextStartTime = sources[Len(sources)].start + sources[Len(sources)].dur

\* Two chunks were received without an interruption and the second is
\* scheduled ahead of the output time, at the end of the first.
C12_Witness ==
  /\ ~received.interrupted
  /\ Len(sources) = 2
  /\ sources[2].start = sources[1].start + sources[1].dur
  /\ sources[2].start > currentTime

\* ------------------------------------------------------------------------
\* More properties of authService.
\* ------------------------------------------------------------------------

\* C13: after a signUp or login call has settled, the in-memory list is the
\* list stored in sessionStorage, and after a signUp that resolved the
\* stored list holds a user with the email signed up.
C13_StoredUsers ==
  lastResult.op \in {"signUp", "login"} =>
    /\ users = loadUsers
    /\ (lastResult.op = "signUp" /\ lastResult.ok) =>
         \E k \in 1..Len(loadUsers) : loadUsers[k].email = lastResult.email

\* ------------------------------------------------------------------------
\* More properties of the chat page.
\* ------------------------------------------------------------------------

\* The text t contains the text sub.
Contains(t, sub) ==
  \E i \in 1..(Len(t) - Len(sub) + 1) : SubSeq(t, i, i + Len(sub) - 1) = sub

\* The personas a text mentions as '@<name>', in session order.
MentionedIn(text, personas) ==
  SelectSeq(personas, LAMBDA p : Contains(text, <<"@">> \o p.name))

\* The personas chosen to answer the message handleSendMessage accepts in
\* this step.
AnsweringNext ==
  IF loops'[chatMounts].msg = sends + 1 THEN loops'[chatMounts].responding ELSE <<>>

\* C14: when a message is accepted, all personas of the session are chosen
\* to answer it if it contains no '@', and exactly the personas it mentions
\* as '@<name>', in session order, if it mentions any.
C14_Step ==
  (ChatShown /\ sends' = sends + 1) =>
    /\ ~Contains(userInput, <<"@">>) => AnsweringNext = sessionConfig.personas
    /\ MentionedIn(userInput, sessionConfig.personas) # <<>> =>
         AnsweringNext = MentionedIn(userInput, sessionConfig.personas)

C14_Mentions == [][C14_Step]_vars


\* The summary request of the page shown settles in this step.
SummarySettlesNow ==
  \E r \in inflight \ inflight' : r.kind = "summary" /\ Mounted(r.inst)

\* C15: End Session opens the summary modal and requests a summary of the
\* message list; when the request settles isSummarizing is false and the
\* summary is the generated text or, when the request fails or there is no
\* AI client, a fixed error string; Finish & Close records the session with
\* its topic, its personas and the current messages and shows the dashboard.
C15_Step ==
  /\ (ChatShown /\ clicks' = clicks + 1) =>
       /\ showSummaryModal'
       /\ apiKey => /\ isSummarizing'
                    /\ \E r \in inflight' \ inflight :
                         r.kind = "summary" /\ r.inst = chatMounts
       /\ ~apiKey => summary' = ErrNoClient /\ ~isSummarizing'
  /\ SummarySettlesNow =>
       /\ ~isSummarizing'
       /\ summary' \in {ReplyText, ErrSummary}
  /\ (ChatShown /\ showSummaryModal /\ sessionConfig' = Null) =>
       /\ sessionHistory' # <<>>
       /\ LET item == sessionHistory'[Len(sessionHistory')]
          IN /\ item.topic = sessionConfig.topic
             /\ item.personas = sessionConfig.personas
             /\ item.messages = messages
       /\ DashboardShown'

C15_Summary == [][C15_Step]_vars


\* C16: the messages quoted in the discussion prompt are the last N
\* messages of the chat at the moment the discussion is requested, N being
\* the number of personas that responded.
C16_Step ==
  \A i \in 1..MaxPages :
    (Mounted(i) /\ loops[i].pc = "discDelay" /\ loops'[i].pc = "discRequest") =>
      loops'[i].quoted = LastN(messages, Len(loops[i].responding))

C16_DiscussionQuotes == [][C16_Step]_vars


\* handleSendMessage of mount i leaves its loop over the personas in this
\* step: the attempt of the last chosen persona has finished.
LastAttemptEnds(i) ==
  /\ loops[i].pc \in {"delay", "request"}
  /\ loops'[i].pc \notin {"delay", "request"}

\* The messages of sender 'Persona Discussion' in a list.
DiscussionsIn(msgs) ==
  Len(SelectSeq(msgs, LAMBDA m : m.sender = Lit("Persona Discussion")))

\* C17: handleSendMessage asks for a discussion exactly when more than one
\* persona was chosen to respond, and only after the attempt of every chosen
\* persona has finished; with an AI client the request is then made; its
\* result is appended with sender 'Persona Discussion' after the responses,
\* and nothing else adds such a message.
C17_Step ==
  /\ \A i \in 1..MaxPages :
       /\ LastAttemptEnds(i) =>
            /\ Len(loops[i].outcomes) + 1 = Len(loops[i].responding)
            /\ loops'[i].pc = "discDelay" <=> Len(loops[i].responding) > 1
       /\ (loops[i].pc # "discDelay" /\ loops'[i].pc = "discDelay") => LastAttemptEnds(i)
       /\ (loops[i].pc = "discDelay" /\ loops'[i] # loops[i] /\ apiKey) =>
            Request("discussion", i, loops[i].msg, 0) \in inflight' \ inflight
       /\ (loops[i].pc = "discRequest" /\ loops'[i] # loops[i]) =>
            /\ loops'[i] = IdleLoop
            /\ messages' \in {messages,
                              Append(messages, Entry(Lit("Persona Discussion"), ReplyText))}
            /\ messages' # messages => Mounted(i)
  /\ \A r \in inflight' \ inflight :
       r.kind = "discussion" =>
         /\ loops[r.inst].pc = "discDelay"
         /\ loops[r.inst].msg = r.msg
         /\ Len(loops[r.inst].responding) > 1
         /\ Len(loops[r.inst].outcomes) = Len(loops[r.inst].responding)
         /\ \A q \in inflight : ~(q.kind = "persona" /\ q.inst = r.inst)
  /\ (ChatShown /\ chatMounts' = chatMounts /\ sessionConfig' # Null
      /\ DiscussionsIn(messages') > DiscussionsIn(messages)) =>
       /\ loops[chatMounts].pc = "discRequest"
       /\ loops'[chatMounts] = IdleLoop

C17_Discussion == [][C17_Step]_vars

\* A discussion has been appended after the responses of two personas.
C17_Witness ==
  /\ ChatShown
  /\ Len(messages) >= 3
  /\ messages[Len(messages)].sender = Lit("Persona Discussion")
  /\ messages[Len(messages) - 1].sender \notin {Lit("user"), Lit("Persona Discussion")}
  /\ loops[chatMounts] = IdleLoop


\* The calls of handleSendMessage that have not finished.
RunningLoops == {i \in 1..MaxPages : loops[i].pc # "idle"}

\* C18: every accepted message finishes, the timers firing and the requests
\* settling, also when requests fail: every call of handleSendMessage ends,
\* and isThinking is then false and thinkingPersona null; while isThinking is
\* true no message is accepted; two answer loops never run at the same time.
C18_Finishes ==
  /\ \A i \in 1..MaxPages : (loops[i].pc # "idle") ~> (loops[i].pc = "idle")
  /\ isThinking ~> (~isThinking /\ thinkingPersona = NoText)
  /\ [][/\ isThinking => sends' = sends
        /\ \A i \in 1..MaxPages :
             (Mounted(i) /\ loops[i].pc # "idle" /\ loops'[i].pc = "idle") =>
               (~isThinking' /\ thinkingPersona' = NoText)]_vars
  /\ [](Cardinality(RunningLoops) <= 1)


\* The message generatePersonaResponse adds when the request of the persona
\* of that name fails.
ErrorMessage(name) ==
  Entry(Lit("System"), Lit("An error occurred with ") \o name \o Lit("."))

\* C19: when a persona's request fails, the System message 'An error
\* occurred with <name>.' is appended in its place and the next persona is
\* asked after its delay; no step of the answer loop removes or changes a
\* message of the list.
C19_Step ==
  \A i \in 1..MaxPages :
    LET l == loops[i]
    IN /\ (Mounted(i) /\ ResponseSettles(i, "error")) =>
            /\ messages' = Append(messages, ErrorMessage(l.responding[l.idx].name))
            /\ l.idx < Len(l.responding) =>
                 /\ loops'[i].pc = "delay"
                 /\ loops'[i].idx = l.idx + 1
                 /\ loops'[i].responding = l.responding
                 /\ isThinking'
                 /\ thinkingPersona' = l.responding[l.idx + 1].name
       /\ (Mounted(i) /\ l.pc = "delay" /\ loops'[i] # l) =>
            /\ loops'[i].pc = "request"
            /\ Request("persona", i, l.msg, l.idx) \in inflight' \ inflight
       /\ (Mounted(i) /\ l.pc # "idle" /\ loops'[i] # l /\ chatMounts' = chatMounts
           /\ sessionConfig' # Null) =>
            /\ Len(messages') >= Len(messages)
            /\ SubSeq(messages', 1, Len(messages)) = messages

C19_ErrorInPlace == [][C19_Step]_vars

\* The first persona's request failed and the second persona answered.
C19_Witness ==
  /\ ChatShown
  /\ \E k \in 1..(Len(messages) - 1) :
       /\ messages[k] = ErrorMessage(sessionConfig.personas[1].name)
       /\ messages[k + 1] = Entry(sessionConfig.personas[2].name, ReplyText)


\* The text holds the mention handleMentionSelect inserts for the name,
\* '@<name> ', and no other '@'.
MentionInserted(text, name) ==
  /\ Contains(text, <<"@">> \o name \o <<" ">>)
  /\ Len(SelectSeq(text, LAMBDA c : c = "@")) = 1

\* C20: a message that holds the mention inserted for a persona chosen from
\* the suggestion list, with or without further text after it, is answered
\* by exactly that persona, whatever the number of words of its name.
C20_Step ==
  (ChatShown /\ sends' = sends + 1) =>
    \A k \in 1..Len(sessionConfig.personas) :
      LET name == sessionConfig.personas[k].name
      IN MentionInserted(userInput, name) =>
           AnsweringNext = SelectSeq(sessionConfig.personas, LAMBDA p : p.name = name)

C20_SelectedResponds == [][C20_Step]_vars


\* ------------------------------------------------------------------------
\* More properties of the call page.
\* ------------------------------------------------------------------------

\* C21: while isMuted is true no captured audio is sent to the live session.
C21_MutedSilent == ~sentWhileMuted


\* C22: once the call page is left, no microphone stream it acquired is
\* live and no audio context it created is running, whenever it was left.
C22_Released ==
  \A i \in 1..MaxMounts :
    callInst[i].life = "left" =>
      /\ callInst[i].stream # "live"
      /\ callInst[i].inCtx # "running"
      /\ callInst[i].outCtx # "running"


\* onmessage handles the 'interrupted' of a message in this step: of a
\* message without audio when it arrives, of one with audio after the
\* decoding.
InterruptionHandled ==
  \/ OnMessage(<<>>, <<>>, FALSE, 0, TRUE, TRUE, TRUE)
  \/ decodeQueue # <<>> /\ Head(decodeQueue).interrupted /\ ResumeDecode

PlayingSources ==
  {k \in 1..Len(sources) : ~sources[k].ended /\ ~sources[k].stopped}

C25_NoWrap ==
  blobPc = "done" =>
    /\ \A k \in 1..Len(data) :
         /\ int16[k] \in (-32768)..32767
         /\ data[k] > 0 => int16[k] > 0
         /\ data[k] < 0 => int16[k] < 0
         /\ data[k] = 0 => int16[k] = 0
    /\ \A j, k \in 1..Len(data) : data[j] <= data[k] => int16[j] <= int16[k]


\* ------------------------------------------------------------------------
\* Properties of the session history.
\* ------------------------------------------------------------------------

\* The step that ends the session shown.
SessionEnds == sessionConfig # Null /\ sessionConfig' = Null

C26_Step ==
  SessionEnds =>
    LET others == SelectSeq(sessionHistory, LAMBDA h : h.topic # sessionConfig.topic)
        n == Len(sessionHistory')
    IN /\ n = Len(others) + 1
       /\ SubSeq(sessionHistory', 1, n - 1) = others
       /\ sessionHistory'[n].topic = sessionConfig.topic
       /\ sessionHistory'[n].personas = sessionConfig.personas
       /\ sessionHistory'[n].messages = messages
       /\ DashboardShown'

\* C26: the session history never holds two items of one topic; ending a
\* session drops the earlier item of its topic, puts the session (topic,
\* personas, messages) last, keeps the items of the other topics as they
\* were and in their order, and shows the dashboard.
C26_History ==
  /\ [][C26_Step]_vars
  /\ [](\A i, j \in 1..Len(sessionHistory) :
          sessionHistory[i].topic = sessionHistory[j].topic => i = j)

\* Three sessions are ended, the third one a reopened session of the
\* topic 't' whose earlier item stood before the item of the topic 'u'.
C26_Witness ==
  /\ DashboardShown
  /\ chatMounts = 3
  /\ Len(sessionHistory) = 2
  /\ sessionHistory[1].topic = <<"u">>
  /\ sessionHistory[2].topic = <<"t">>


\* Reopening the h-th item of the history shows a chat page of the item's
\* topic and personas that starts with the item's messages.
C27_Reopens ==
  \A h \in 1..MaxPages :
    handleReopenSession(h) =>
      /\ ChatShown'
      /\ sessionConfig'.topic = sessionHistory[h].topic
      /\ sessionConfig'.personas = sessionHistory[h].personas
      /\ messages' = sessionHistory[h].messages

\* Ending a reopened session on whose page nothing was sent saves the
\* messages its item held.
C27_EndsUnchanged ==
  (SessionEnds /\ pageSends = 0) =>
    \A h \in 1..Len(sessionHistory) :
      (/\ sessionHistory[h].topic = sessionConfig.topic
       /\ sessionHistory[h].messages = sessionConfig.initialMessages)
      => sessionHistory'[Len(sessionHistory')].messages = sessionHistory[h].messages

\* C27: a reopened session is a chat of the saved topic and personas whose
\* first messages are the saved messages, and ending it again with nothing
\* sent leaves the saved messages as they were.
C27_Reopen == [][C27_Reopens /\ C27_EndsUnchanged]_vars

\* The one session generated was ended with the user's message saved,
\* while its turn was still running, then reopened and ended again.
C27_Witness ==
  /\ DashboardShown
  /\ chatMounts = 2
  /\ submits = 1
  /\ loops[1].pc # "idle"
  /\ Len(sessionHistory) = 1
  /\ sessionHistory[1].messages # <<>>


\* ------------------------------------------------------------------------
\* Properties of the dashboard.
\* ------------------------------------------------------------------------

C28_Step ==
  StartBrainstorming =>
    LET personas == sessionConfig'.personas
    IN /\ personas # <<>>
       /\ \A i, j \in 1..Len(personas) : personas[i].name = personas[j].name => i = j
       /\ \A i \in 1..Len(personas) :
            \E k \in 1..Len(generatedPersonas) : personas[i] = generatedPersonas[k]
       /\ sessionConfig'.topic # <<>>
       /\ sessionConfig'.topic = generatedFor

\* C28: a session started with the Start Brainstorming button has one or
\* more of the personas generated last, none of them twice, and its topic
\* is the topic they were generated for, which is not empty.
C28_NewSession == [][C28_Step]_vars

====
